------------------------------ MODULE Spec2Model ------------------------------
(***************************************************************************)
(* A model of the TGA codec of plug-ins/common/file-tga.c: the RLE packet  *)
(* writer and reader, the header parser and pixel-format resolver of       *)
(* load_image, and the row streaming of ReadImage.                         *)
(*                                                                         *)
(* Memory is modelled as sequences of bytes.  Offsets are 0-based as in    *)
(* the C code; At and Slice translate them to TLA+ sequences.              *)
(***************************************************************************)
EXTENDS Integers, Sequences, FiniteSets, TLC

VARIABLES
  pc,     \* position of the running procedure
  enc,    \* rle_write's caller: [buf, width, bytes], the row handed to rle_write
  out,    \* bytes written to the output FILE
  fp,     \* the input FILE: [data, pos]
  rle,    \* rle_read's static locals: [repeat, direct, sample]
  info,   \* tga_info, as filled by load_image
  dec     \* locals of load_image / ReadImage and the image they produce

vars == <<pc, enc, out, fp, rle, info, dec>>

----------------------------------------------------------------------------
(* Bounds of the model *)

\* the largest gimp_tile_height () tried
MaxTileHeight == 3
\* the largest image height and width of the files decoded
MaxHeight == 4
MaxWidth == 2
\* small rows are enumerated exhaustively up to this width
MaxSmallWidth == 3
\* the byte values small rows are built from are 0..MaxSmallByte
MaxSmallByte == 1

----------------------------------------------------------------------------
(* C helpers *)

EOF == -1

Byte == 0..255

Min(a, b) == IF a < b THEN a ELSE b

At(s, off) == s[off + 1]

Slice(s, off, n) == SubSeq(s, off + 1, off + n)

\* overwrite n = Len(src) bytes of s starting at offset off
WriteAt(s, off, src) ==
  SubSeq(s, 1, off) \o src \o SubSeq(s, off + Len(src) + 1, Len(s))

\* putc (c, fp) writes (unsigned char) c
putc(c) == <<c % 256>>

\* memcmp (a, b, n) != 0 on two n-byte records of buf at offsets a and b
memcmp(buf, a, b, n) == Slice(buf, a, n) # Slice(buf, b, n)

----------------------------------------------------------------------------
(* rle_write, lines 649-725.  The loop state is [repeat, direct, from,     *)
(* buf, out]: from and buf are offsets into the row, out is what has been  *)
(* written to fp.                                                          *)

\* lines 665-676: the next pixel is different
RleWriteDifferent(s, row, bytes) ==
  IF s.repeat # 0
    THEN [s EXCEPT !.out = s.out \o putc(128 + s.repeat) \o Slice(row, s.from, bytes),
                   !.from = s.buf + bytes,
                   !.repeat = 0,
                   !.direct = 0]
    ELSE [s EXCEPT !.direct = s.direct + 1]

\* RleWriteSame with the raw packet's head one too large
RleWriteSameHeadOff(s, row, bytes) ==
  IF s.direct # 0
    THEN [s EXCEPT !.out = s.out \o putc(s.direct)
                                 \o Slice(row, s.from, bytes * s.direct),
                   !.from = s.buf,
                   !.direct = 0,
                   !.repeat = 1]
    ELSE [s EXCEPT !.repeat = s.repeat + 1]

\* lines 680-692: the next pixel is the same
RleWriteSame(s, row, bytes) ==
  IF s.direct # 0
    THEN [s EXCEPT !.out = s.out \o putc(s.direct - 1)
                                 \o Slice(row, s.from, bytes * s.direct),
                   !.from = s.buf,
                   !.direct = 0,
                   !.repeat = 1]
    ELSE [s EXCEPT !.repeat = s.repeat + 1]

\* RleWriteFull with the runs flushed one pixel late
RleWriteFullLate(s, row, bytes) ==
  IF s.repeat = 129
    THEN [s EXCEPT !.out = s.out \o putc(255) \o Slice(row, s.from, bytes),
                   !.from = s.buf + bytes,
                   !.direct = 0,
                   !.repeat = 0]
    ELSE IF s.direct = 129
      THEN [s EXCEPT !.out = s.out \o putc(127)
                                   \o Slice(row, s.from, bytes * s.direct),
                     !.from = s.buf + bytes,
                     !.direct = 0,
                     !.repeat = 0]
      ELSE s

\* lines 695-710: a run that reached 128 pixels is flushed
RleWriteFull(s, row, bytes) ==
  IF s.repeat = 128
    THEN [s EXCEPT !.out = s.out \o putc(255) \o Slice(row, s.from, bytes),
                   !.from = s.buf + bytes,
                   !.direct = 0,
                   !.repeat = 0]
    ELSE IF s.direct = 128
      THEN [s EXCEPT !.out = s.out \o putc(127)
                                   \o Slice(row, s.from, bytes * s.direct),
                     !.from = s.buf + bytes,
                     !.direct = 0,
                     !.repeat = 0]
      ELSE s

\* lines 662-712: one iteration of the for loop
RleWriteIter(s, row, bytes) ==
  LET s1 == IF memcmp(row, s.buf, s.buf + bytes, bytes)
              THEN RleWriteDifferent(s, row, bytes)
              ELSE RleWriteSame(s, row, bytes)
      s2 == RleWriteFull(s1, row, bytes)
  IN  [s2 EXCEPT !.buf = s2.buf + bytes]

RECURSIVE RleWriteLoop(_, _, _, _, _)
\* lines 660-713: for (x = lo; x < hi; ++x).  The range is halved and the
\* first half evaluated before the second is entered (the test on left.buf
\* is always true), which keeps the evaluation shallow.
RleWriteLoop(s, lo, hi, row, bytes) ==
  IF hi <= lo
    THEN s
    ELSE IF hi = lo + 1
      THEN RleWriteIter(s, row, bytes)
      ELSE LET mid  == (lo + hi) \div 2
               left == RleWriteLoop(s, lo, mid, row, bytes)
           IN  IF left.buf >= 0
                 THEN RleWriteLoop(left, mid, hi, row, bytes)
                 ELSE left

\* RleWriteTail with the last repeat packet declaring one pixel less
RleWriteTailShort(s, row, bytes) ==
  IF s.repeat > 0
    THEN s.out \o putc(127 + s.repeat) \o Slice(row, s.from, bytes)
    ELSE s.out \o putc(s.direct) \o Slice(row, s.from, bytes * (s.direct + 1))

\* lines 715-724: the open run is flushed at the end of the row
RleWriteTail(s, row, bytes) ==
  IF s.repeat > 0
    THEN s.out \o putc(128 + s.repeat) \o Slice(row, s.from, bytes)
    ELSE s.out \o putc(s.direct) \o Slice(row, s.from, bytes * (s.direct + 1))

\* the bytes rle_write (fp, buf, width, bytes) appends to fp
rle_write(row, width, bytes) ==
  LET s0 == [repeat |-> 0, direct |-> 0, from |-> 0, buf |-> 0, out |-> <<>>]
  IN  RleWriteTail(RleWriteLoop(s0, 1, width, row, bytes), row, bytes)

----------------------------------------------------------------------------
(* stdio on fp = [data, pos, good]: data is the content of the file, pos  *)
(* the position, good the number of leading bytes the device can deliver   *)
(* (Len(data) unless reads fail with an I/O error).                        *)

File(data) == [data |-> data, pos |-> 0, good |-> Len(data)]

Max(a, b) == IF a > b THEN a ELSE b

\* the number of bytes a read of n bytes obtains
Avail(f, n) == Max(0, Min(n, f.good - f.pos))

\* getc (fp): the byte read, or EOF
getc(f) == IF Avail(f, 1) = 1 THEN At(f.data, f.pos) ELSE EOF

\* fread (ptr, size, 1, fp) != 1: no complete item of size bytes was read
freadShort(f, size) == size = 0 \/ Avail(f, size) < size

\* fseek (fp, off, SEEK_SET) != 0
fseekSetFails(f, off) == off < 0

\* fseek (fp, -n, SEEK_END) != 0
fseekEndFails(f, n) == Len(f.data) - n < 0

\* the bytes fread stores (a short read stores what it got)
freadBytes(f, n) == Slice(f.data, f.pos, Avail(f, n))

\* the FILE after reading up to n bytes
Advance(f, n) == [f EXCEPT !.pos = f.pos + Avail(f, n)]

----------------------------------------------------------------------------
(* rle_read, lines 727-782.  The state of a call is [repeat, direct,       *)
(* sample, f, buf, ret]: repeat, direct and sample are the static locals,  *)
(* f the FILE, buf the line buffer, ret = EOF once the function returned   *)
(* EOF.                                                                    *)

\* RleRepeatCount one too small
RleRepeatCountShort(head) == head - 128

\* line 750: the pixel count of a repeat packet
RleRepeatCount(head) == head - 127

\* line 757: the pixel count of a raw packet
RleDirectCount(head) == head + 1

\* lines 740-759: a packet header is read when both counters are zero
RleReadHead(s, bytes) ==
  IF s.repeat = 0 /\ s.direct = 0
    THEN LET head == getc(s.f)
             f1   == Advance(s.f, 1)
         IN  IF head = EOF
               THEN [s EXCEPT !.ret = EOF]
               ELSE IF head >= 128
                 THEN [s EXCEPT !.repeat = RleRepeatCount(head),
                                !.sample = WriteAt(s.sample, 0, freadBytes(f1, bytes)),
                                !.f = Advance(f1, bytes),
                                !.ret = IF freadShort(f1, bytes) THEN EOF ELSE 0]
                 ELSE [s EXCEPT !.direct = RleDirectCount(head), !.f = f1]
    ELSE s

\* lines 761-778: pixel x is stored at buf
RleReadPixel(s, x, bytes) ==
  IF s.repeat > 0
    THEN [s EXCEPT !.buf = WriteAt(s.buf, x * bytes, Slice(s.sample, 0, bytes)),
                   !.repeat = s.repeat - 1]
    ELSE [s EXCEPT !.buf = WriteAt(s.buf, x * bytes, freadBytes(s.f, bytes)),
                   !.f = Advance(s.f, bytes),
                   !.direct = IF freadShort(s.f, bytes) THEN s.direct ELSE s.direct - 1,
                   !.ret = IF freadShort(s.f, bytes) THEN EOF ELSE 0]

\* lines 740-778: one iteration of the for loop; return EOF leaves the loop
RleReadIter(s, x, bytes) ==
  IF s.ret = EOF
    THEN s
    ELSE LET s1 == RleReadHead(s, bytes)
         IN  IF s1.ret = EOF THEN s1 ELSE RleReadPixel(s1, x, bytes)

RECURSIVE RleReadLoop(_, _, _, _)
\* lines 738-779: for (x = lo; x < hi; x++).  The range is halved, which
\* keeps the evaluation shallow; once EOF was returned nothing more runs.
RleReadLoop(s, lo, hi, bytes) ==
  IF hi <= lo
    THEN s
    ELSE IF hi = lo + 1
      THEN RleReadIter(s, lo, bytes)
      ELSE LET mid  == (lo + hi) \div 2
               left == RleReadLoop(s, lo, mid, bytes)
           IN  IF left.ret = EOF
                 THEN left
                 ELSE RleReadLoop(left, mid, hi, bytes)

\* rle_read (fp, buf, info) with the statics st
rle_read(st, f, buf, width, bytes) ==
  RleReadLoop([repeat |-> st.repeat, direct |-> st.direct, sample |-> st.sample,
               f |-> f, buf |-> buf, ret |-> 0], 0, width, bytes)

----------------------------------------------------------------------------
(* Rows handed to rle_write.  A pixel record of b bytes holds the value v  *)
(* little-endian.                                                          *)

RECURSIVE Pow256(_)
Pow256(j) == IF j = 0 THEN 1 ELSE 256 * Pow256(j - 1)

\* the row of width pixels of b bytes whose pixel i has value pix[i]
RowOf(pix, width, b) ==
  [k \in 1..(width * b) |-> (pix[(k - 1) \div b] \div Pow256((k - 1) % b)) % 256]

\* every row of at most MaxSmallWidth pixels over the bytes 0..MaxSmallByte
SmallShapes ==
  {wb \in (1..MaxSmallWidth) \X (1..4) : wb[1] * wb[2] <= 2 * MaxSmallWidth}

SmallRows ==
  UNION {{[buf |-> r, width |-> wb[1], bytes |-> wb[2]] :
            r \in [1..(wb[1] * wb[2]) -> 0..MaxSmallByte]} : wb \in SmallShapes}

\* widths around the 128-pixel packet limit and its multiples
LongWidths == {127, 128, 129, 200, 256, 257}

\* pixel values of the long rows: all the same, all distinct, runs of k
\* equal pixels, d distinct pixels followed by equal ones, and the reverse
Patterns ==
  {[kind |-> "same", k |-> 1], [kind |-> "distinct", k |-> 1]}
    \cup {[kind |-> "runs", k |-> k] : k \in {2, 3, 127, 128, 129}}
    \cup {[kind |-> "head", k |-> k] : k \in {1, 127, 128, 129}}
    \cup {[kind |-> "tail", k |-> k] : k \in {2, 127, 128, 129, 130}}

PatternPixel(p, i) ==
  CASE p.kind = "same"     -> 7
    [] p.kind = "distinct" -> i
    [] p.kind = "runs"     -> 1000 + ((i \div p.k) % 2)
    [] p.kind = "head"     -> IF i < p.k THEN i ELSE 1000
    [] p.kind = "tail"     -> IF i < p.k THEN 1000 ELSE i

LongRows ==
  {[buf |-> RowOf([i \in 0..(w - 1) |-> PatternPixel(p, i)], w, b),
    width |-> w, bytes |-> b] : w \in LongWidths, b \in 1..4, p \in Patterns}

Rows == SmallRows \cup LongRows

\* the content of freshly allocated memory is not defined
Fresh == {0, 255}

NoInfo == [width |-> 0]
NoDec == [buf |-> <<>>, ret |-> 0]
RleZero == [repeat |-> 0, direct |-> 0, sample |-> <<0, 0, 0, 0>>]

----------------------------------------------------------------------------
(* The RLE codec on one row: save_image hands a row to rle_write (line     *)
(* 1401), read_line reads it back with rle_read (line 939).                *)

InitRle ==
  /\ pc = "row"
  /\ enc \in Rows
  /\ out = <<>>
  /\ fp = File(<<>>)
  /\ rle = RleZero
  /\ info = NoInfo
  /\ dec = NoDec

\* save_image line 1401: rle_write (fp, data, width, out_bpp)
RleEncode ==
  /\ pc = "row"
  /\ out' = out \o rle_write(enc.buf, enc.width, enc.bytes)
  /\ pc' = "encoded"
  /\ UNCHANGED <<enc, fp, rle, info, dec>>

\* read_line line 939: rle_read (fp, buf, info) on the file just written,
\* into a line buffer allocated by g_new (line 1125)
RleDecode ==
  /\ pc = "encoded"
  /\ \E junk \in Fresh :
       LET buf0 == [i \in 1..(enc.width * enc.bytes) |-> junk]
           r    == rle_read(rle, File(out), buf0,
                            enc.width, enc.bytes)
       IN  /\ fp' = r.f
           /\ rle' = [repeat |-> r.repeat, direct |-> r.direct, sample |-> r.sample]
           /\ dec' = [buf |-> r.buf, ret |-> r.ret]
  /\ pc' = "decoded"
  /\ UNCHANGED <<enc, out, info>>

NextRle == RleEncode \/ RleDecode

SpecRle == InitRle /\ [][NextRle]_vars

----------------------------------------------------------------------------
(* The packets of an RLE stream *)

\* the packet at offset s.pos of stream o appended to s.ps, as
\* [head, count, records]; a packet whose records are cut short has count 0
\* and ends the walk
PacketStep(s, o, bytes) ==
  IF s.pos >= Len(o)
    THEN s
    ELSE LET head == At(o, s.pos)
             recs == IF head >= 128 THEN 1 ELSE head + 1
             cnt  == IF head >= 128 THEN head - 127 ELSE head + 1
             end  == s.pos + 1 + recs * bytes
         IN  IF end > Len(o)
               THEN [pos |-> Len(o),
                     ps  |-> Append(s.ps, [head |-> head, count |-> 0,
                                           records |-> recs])]
               ELSE [pos |-> end,
                     ps  |-> Append(s.ps, [head |-> head, count |-> cnt,
                                           records |-> recs])]

RECURSIVE PacketWalk(_, _, _, _, _)
\* hi - lo steps of the walk, the first half evaluated before the second
PacketWalk(s, lo, hi, o, bytes) ==
  IF hi <= lo
    THEN s
    ELSE IF hi = lo + 1
      THEN PacketStep(s, o, bytes)
      ELSE LET mid  == (lo + hi) \div 2
               left == PacketWalk(s, lo, mid, o, bytes)
           IN  IF left.pos >= Len(o)
                 THEN left
                 ELSE PacketWalk(left, mid, hi, o, bytes)

\* the packets of stream o from offset pos on (a packet takes at least two
\* bytes, so Len(o) steps reach the end)
Packets(o, pos, bytes) ==
  PacketWalk([pos |-> pos, ps |-> <<>>], 0, Len(o), o, bytes).ps

RECURSIVE SumRange(_, _, _)
SumRange(ps, lo, hi) ==
  IF lo > hi
    THEN 0
    ELSE IF lo = hi
      THEN ps[lo].count
      ELSE LET mid == (lo + hi) \div 2
           IN  SumRange(ps, lo, mid) + SumRange(ps, mid + 1, hi)

SumCounts(ps) == SumRange(ps, 1, Len(ps))

\* some pixel equals its successor and some pixel differs from it
MixedRow(e) ==
  /\ \E x \in 0..(e.width - 2) :
       Slice(e.buf, x * e.bytes, e.bytes) = Slice(e.buf, (x + 1) * e.bytes, e.bytes)
  /\ \E x \in 0..(e.width - 2) :
       Slice(e.buf, x * e.bytes, e.bytes) # Slice(e.buf, (x + 1) * e.bytes, e.bytes)

\* C1: RLE round trip.  Reading back with rle_read (counters zero) what
\* rle_write wrote for a row gives the row again, consumes exactly the bytes
\* written and leaves both counters at zero.
C1_RoundTrip ==
  pc = "decoded" =>
    /\ dec.ret = 0
    /\ dec.buf = enc.buf
    /\ fp.pos = Len(out)
    /\ rle.repeat = 0 /\ rle.direct = 0

C1_Witness ==
  /\ pc = "decoded"
  /\ enc.width = 129
  /\ enc.bytes = 3
  /\ MixedRow(enc)
  /\ dec.buf = enc.buf

\* C2: every packet rle_write emits is complete (a repeat packet has one
\* record, a raw packet head + 1 records), declares 1..128 pixels, and the
\* declared counts add up to the row width.
C2_PacketCounts ==
  pc \in {"encoded", "decoded"} =>
    LET ps == Packets(out, 0, enc.bytes)
    IN  /\ \A i \in 1..Len(ps) :
             /\ ps[i].count \in 1..128
             /\ ps[i].head \in 128..255 => ps[i].records = 1
             /\ ps[i].head \in 0..127 => ps[i].records = ps[i].head + 1
        /\ SumCounts(ps) = enc.width

C2_Witness ==
  /\ pc = "encoded"
  /\ enc.width = 257
  /\ LET ps == Packets(out, 0, enc.bytes)
     IN  /\ Len(ps) = 3
         /\ ps[1].count = 128 /\ ps[2].count = 128 /\ ps[3].count = 1

\* all pixel records of the row are the same
AllSame(e) ==
  \A x \in 0..(e.width - 1) : Slice(e.buf, x * e.bytes, e.bytes) = Slice(e.buf, 0, e.bytes)

\* C17: a row of n identical records of b bytes is written as ceil(n / 128)
\* packets of one control byte and one record each, (1 + b) bytes a packet;
\* every packet but the last declares 128 pixels and the last the rest.
C17_IdenticalRun ==
  pc \in {"encoded", "decoded"} /\ AllSame(enc) =>
    LET k  == (enc.width + 127) \div 128
        ps == Packets(out, 0, enc.bytes)
    IN  /\ Len(out) = k * (1 + enc.bytes)
        /\ Len(ps) = k
        /\ \A i \in 1..k :
             /\ ps[i].records = 1
             /\ ps[i].count = IF i < k THEN 128 ELSE enc.width - 128 * (k - 1)
             /\ Slice(out, (i - 1) * (1 + enc.bytes) + 1, enc.bytes)
                  = Slice(enc.buf, 0, enc.bytes)

C17_Witness ==
  /\ pc = "encoded"
  /\ enc.width = 200
  /\ enc.bytes = 4
  /\ AllSame(enc)
  /\ out = <<255>> \o Slice(enc.buf, 0, 4) \o <<199>> \o Slice(enc.buf, 0, 4)

----------------------------------------------------------------------------
(* load_image, lines 425-647 *)

\* lines 108-110
TGA_TYPE_MAPPED == 1
TGA_TYPE_COLOR == 2
TGA_TYPE_GRAY == 3
\* lines 114-115
TGA_COMP_NONE == 0
TGA_COMP_RLE == 1

\* lines 431-433: sizeof (header), sizeof (footer), sizeof (extension)
HeaderSize == 18
FooterSize == 26
ExtensionSize == 495

\* lines 213-217: "TRUEVISION-XFILE." and a NUL
magic == <<84, 82, 85, 69, 86, 73, 83, 73, 79, 78, 45, 88, 70, 73, 76, 69, 46, 0>>

\* the locals of load_image and ReadImage before load_image runs
NULL == [null |-> TRUE, mem |-> <<>>]

DecInit ==
  [error |-> "", image |-> FALSE, header |-> <<>>, headerPos |-> -1,
   footerRead |-> FALSE, extensionRead |-> FALSE,
   itype |-> "", dtype |-> "", bpp |-> 0, cmap_bytes |-> 0,
   tga_cmap |-> NULL, gimp_cmap |-> NULL, convert_cmap |-> NULL,
   max_tileheight |-> 0, tileheight |-> 0, i |-> 0, y |-> 0,
   data |-> NULL, buf |-> NULL,
   pixels |-> <<>>, rects |-> <<>>, nread |-> 0,
   slotLine |-> <<>>, rowLine |-> <<>>,
   short |-> FALSE, conv |-> [kind |-> "", wrote |-> 0, read |-> 0],
   lookupOut |-> FALSE, ub |-> FALSE]

\* g_message (...); fclose (fp); return NULL
Fail(msg) ==
  /\ pc' = "failed"
  /\ dec' = [dec EXCEPT !.error = msg]

\* lines 464-467: the extension offset in the footer
FooterOffset(footer) ==
  At(footer, 0) + At(footer, 1) * 256 + At(footer, 2) * 65536
    + At(footer, 3) * 16777216

\* FooterHasMagic with the magic looked for at the start of the footer
FooterHasMagicAtStart(footer) == Slice(footer, 0, 18) = magic

\* line 460: memcmp (footer + 8, magic, sizeof (magic)) == 0
FooterHasMagic(footer) == Slice(footer, 8, 18) = magic

\* lines 450-482: the footer and the extension area are probed
FooterProbe ==
  /\ pc = "open"
  /\ IF fseekEndFails(fp, FooterSize)
       THEN /\ pc' = "header"
            /\ UNCHANGED <<fp, dec>>
       ELSE LET f1     == [fp EXCEPT !.pos = Len(fp.data) - FooterSize]
                footer == Slice(fp.data, f1.pos, FooterSize)
                f2     == Advance(f1, FooterSize)
                offset == FooterOffset(footer)
                f3     == [f2 EXCEPT !.pos = offset]
            IN  IF freadShort(f1, FooterSize)
                  THEN /\ Fail("Cannot read footer")
                       /\ fp' = f2
                  ELSE IF FooterHasMagic(footer) /\ offset # 0
                    THEN IF fseekSetFails(f2, offset)
                           THEN /\ Fail("Cannot read extension")
                                /\ fp' = f2
                           ELSE IF freadShort(f3, ExtensionSize)
                             THEN /\ Fail("Cannot read extension")
                                  /\ fp' = Advance(f3, ExtensionSize)
                             ELSE /\ pc' = "header"
                                  /\ fp' = Advance(f3, ExtensionSize)
                                  /\ dec' = [dec EXCEPT !.footerRead = TRUE,
                                                        !.extensionRead = TRUE]
                    ELSE /\ pc' = "header"
                         /\ fp' = f2
                         /\ dec' = [dec EXCEPT !.footerRead = TRUE]
  /\ UNCHANGED <<enc, out, rle, info>>

\* lines 493-523: the image type and compression of type code header[2]
ImageType(code) ==
  CASE code \in {1, 9}  -> TGA_TYPE_MAPPED
    [] code \in {2, 10} -> TGA_TYPE_COLOR
    [] code \in {3, 11} -> TGA_TYPE_GRAY
    [] OTHER            -> 0

\* for an unknown type code imageCompression is left unset; it is never read,
\* because the switch at line 560 rejects the file
ImageCompression(code) ==
  IF code \in {9, 10, 11} THEN TGA_COMP_RLE ELSE TGA_COMP_NONE

\* line 539: header[17] & 0x0f
AlphaBitsOf(desc) == desc % 16

\* line 540: (header[17] & 0x10) ? 1 : 0
FlipHorizOf(desc) == IF (desc \div 16) % 2 = 1 THEN 1 ELSE 0

\* line 541: (header[17] & 0x20) ? 0 : 1
FlipVertOf(desc) == IF (desc \div 32) % 2 = 1 THEN 0 ELSE 1

\* lines 493-541: tga_info as read from the 18 header bytes
ParseHeader(h) ==
  [idLength         |-> At(h, 0),
   colorMapType     |-> At(h, 1),
   imageType        |-> ImageType(At(h, 2)),
   imageCompression |-> ImageCompression(At(h, 2)),
   colorMapIndex    |-> At(h, 3) + At(h, 4) * 256,
   colorMapLength   |-> At(h, 5) + At(h, 6) * 256,
   colorMapSize     |-> At(h, 7),
   xOrigin          |-> At(h, 8) + At(h, 9) * 256,
   yOrigin          |-> At(h, 10) + At(h, 11) * 256,
   width            |-> At(h, 12) + At(h, 13) * 256,
   height           |-> At(h, 14) + At(h, 15) * 256,
   bpp              |-> At(h, 16),
   bytes            |-> (At(h, 16) + 7) \div 8,
   alphaBits        |-> AlphaBitsOf(At(h, 17)),
   flipHoriz        |-> FlipHorizOf(At(h, 17)),
   flipVert         |-> FlipVertOf(At(h, 17))]

\* SeekHeader with the position left where the probe ended
SeekHeaderNone(f) == f

\* line 484: fseek (fp, 0, SEEK_SET)
SeekHeader(f) == [f EXCEPT !.pos = 0]

\* lines 484-541: the header is read from the start of the file
ReadHeader ==
  /\ pc = "header"
  /\ IF fseekSetFails(fp, 0)
       THEN /\ Fail("Cannot read header")
            /\ UNCHANGED <<fp, info>>
       ELSE LET f1 == SeekHeader(fp)
            IN  IF freadShort(f1, HeaderSize)
                  THEN /\ Fail("Cannot read header")
                       /\ fp' = Advance(f1, HeaderSize)
                       /\ UNCHANGED info
                  ELSE /\ pc' = "quirks"
                       /\ fp' = Advance(f1, HeaderSize)
                       /\ dec' = [dec EXCEPT !.header = Slice(fp.data, f1.pos, HeaderSize),
                                             !.headerPos = f1.pos]
                       /\ info' = ParseHeader(Slice(fp.data, f1.pos, HeaderSize))
  /\ UNCHANGED <<enc, out, rle>>

\* lines 544-545: alphaBits equal to bpp is taken to be 0
FixAlphaEqualBpp(i) ==
  IF i.alphaBits = i.bpp THEN [i EXCEPT !.alphaBits = 0] ELSE i

\* lines 548-558: alphaBits 0 is taken to be 8 where the format has alpha
FixAlphaZero(i) ==
  IF i.alphaBits = 0
    THEN LET i1 == IF i.imageType = TGA_TYPE_MAPPED /\ i.colorMapSize = 32
                     THEN [i EXCEPT !.alphaBits = 8] ELSE i
             i2 == IF i1.imageType = TGA_TYPE_COLOR /\ i1.bpp = 32
                     THEN [i1 EXCEPT !.alphaBits = 8] ELSE i1
             i3 == IF i2.imageType = TGA_TYPE_GRAY /\ i2.bpp = 16
                     THEN [i2 EXCEPT !.alphaBits = 8] ELSE i2
         IN  i3
    ELSE i

\* FixAlpha with the two hacks in the other order
FixAlphaSwapped(i) == FixAlphaEqualBpp(FixAlphaZero(i))

\* lines 543-558: both header hacks, in the order of the code
FixAlpha(i) == FixAlphaZero(FixAlphaEqualBpp(i))

FixHeader ==
  /\ pc = "quirks"
  /\ info' = FixAlpha(info)
  /\ pc' = "subformat"
  /\ UNCHANGED <<enc, out, fp, rle, dec>>

\* SubformatUnhandled with gray accepted at any depth when alphaBits is 8
SubformatUnhandledGray(i) ==
  CASE i.imageType = TGA_TYPE_MAPPED -> i.bpp # 8
    [] i.imageType = TGA_TYPE_COLOR ->
         \/ (i.bpp # 15 /\ i.bpp # 16 /\ i.bpp # 24 /\ i.bpp # 32)
         \/ ((i.bpp = 15 \/ i.bpp = 24) /\ i.alphaBits # 0)
         \/ (i.bpp = 16 /\ i.alphaBits # 1 /\ i.alphaBits # 0)
         \/ (i.bpp = 32 /\ i.alphaBits # 8)
    [] i.imageType = TGA_TYPE_GRAY -> i.bpp # 8 /\ i.alphaBits # 8
    [] OTHER -> FALSE

\* lines 563, 573-579, 589-590: the sub-format is not handled
SubformatUnhandled(i) ==
  CASE i.imageType = TGA_TYPE_MAPPED -> i.bpp # 8
    [] i.imageType = TGA_TYPE_COLOR ->
         \/ (i.bpp # 15 /\ i.bpp # 16 /\ i.bpp # 24 /\ i.bpp # 32)
         \/ ((i.bpp = 15 \/ i.bpp = 24) /\ i.alphaBits # 0)
         \/ (i.bpp = 16 /\ i.alphaBits # 1 /\ i.alphaBits # 0)
         \/ (i.bpp = 32 /\ i.alphaBits # 8)
    [] i.imageType = TGA_TYPE_GRAY ->
         i.bpp # 8 /\ (i.alphaBits # 8 \/ (i.bpp # 16 /\ i.bpp # 15))
    [] OTHER -> FALSE

\* lines 560-605: the switch knows the image type
KnownType(i) == i.imageType \in {TGA_TYPE_MAPPED, TGA_TYPE_COLOR, TGA_TYPE_GRAY}

\* line 608: plausible but unhandled formats
BytesUnhandled(i) == i.bytes * 8 # i.bpp /\ i.bpp # 15

\* lines 560-615: the sub-format checks
CheckSubformat ==
  /\ pc = "subformat"
  /\ IF KnownType(info) /\ ~SubformatUnhandled(info) /\ ~BytesUnhandled(info)
       THEN /\ pc' = "cmaptype"
            /\ UNCHANGED dec
       ELSE IF ~KnownType(info)
         THEN Fail("Unknown image type")
         ELSE Fail("Unhandled sub-format")
  /\ UNCHANGED <<enc, out, fp, rle, info>>

\* ColorMapTypeInvalid with a color map allowed in gray files
ColorMapTypeInvalidColor(i) ==
  \/ (i.imageType = TGA_TYPE_MAPPED /\ i.colorMapType # 1)
  \/ (i.imageType = TGA_TYPE_COLOR /\ i.colorMapType # 0)

\* lines 618, 625: the color map type does not fit the image type
ColorMapTypeInvalid(i) ==
  \/ (i.imageType = TGA_TYPE_MAPPED /\ i.colorMapType # 1)
  \/ (i.imageType # TGA_TYPE_MAPPED /\ i.colorMapType # 0)

\* lines 617-631
CheckColorMapType ==
  /\ pc = "cmaptype"
  /\ IF ColorMapTypeInvalid(info)
       THEN Fail("Invalid color map type")
       ELSE /\ pc' = "skipid"
            /\ UNCHANGED dec
  /\ UNCHANGED <<enc, out, fp, rle, info>>

\* lines 633-640: fseek (fp, info.idLength, SEEK_CUR) does not fail going
\* forward, also beyond the end of the file
SkipId ==
  /\ pc = "skipid"
  /\ fp' = [fp EXCEPT !.pos = fp.pos + info.idLength]
  /\ pc' = "format"
  /\ UNCHANGED <<enc, out, rle, info, dec>>

----------------------------------------------------------------------------
(* Memory.  g_new does not initialise what it allocates; a read outside an *)
(* allocation yields whatever lies there.  Both are the byte junk, which   *)
(* the actions choose freely.                                              *)

\* g_new (guchar, n): NULL for n = 0
Alloc(n, junk) == [null |-> n = 0, mem |-> [k \in 1..n |-> junk]]

\* the byte at offset off of mem
Rd(mem, off, junk) == IF off >= 0 /\ off < Len(mem) THEN mem[off + 1] ELSE junk

\* mem after src was written at offset off; what does not fit lands outside
Store(mem, off, src) ==
  IF off >= Len(mem)
    THEN mem
    ELSE WriteAt(mem, off, SubSeq(src, 1, Min(Len(src), Len(mem) - off)))

----------------------------------------------------------------------------
(* The converters of a line, lines 784-927.  Each gives the bytes it       *)
(* writes to dest, in order.                                               *)

\* SwapRecords with the bytes of each record moved in reverse order
SwapRecordsReversed(buf, x, alt, bytes) ==
  LET a == [k \in 1..bytes |-> buf[x * bytes + bytes + 1 - k]]
      b == [k \in 1..bytes |-> buf[alt * bytes + bytes + 1 - k]]
  IN  IF x = alt
        THEN WriteAt(buf, x * bytes, a)
        ELSE WriteAt(WriteAt(buf, x * bytes, b), alt * bytes, a)

\* lines 796-801: pixel records x and alt are swapped
SwapRecords(buf, x, alt, bytes) ==
  LET a == Slice(buf, x * bytes, bytes)
      b == Slice(buf, alt * bytes, bytes)
  IN  WriteAt(WriteAt(buf, x * bytes, b), alt * bytes, a)

RECURSIVE FlipLoop(_, _, _, _)
\* lines 794-805: for (x = 0; x * 2 < info->width; x++)
FlipLoop(buf, x, width, bytes) ==
  IF x * 2 < width
    THEN FlipLoop(SwapRecords(buf, x, width - 1 - x, bytes), x + 1, width, bytes)
    ELSE buf

\* lines 784-806
flip_line(buf, width, bytes) == FlipLoop(buf, 0, width, bytes)

\* Spread without the high bits added in
SpreadNone(x) == x

\* lines 823-830: x += x >> 5 on a guchar
Spread(x) == (x + (x \div 32)) % 256

\* lines 823-834: the 3 or 4 bytes of one 15/16-bit pixel s0, s1
UpsamplePixel(s0, s1, alpha) ==
  LET r == Spread(((s1 * 2) % 256) - (((s1 * 2) % 256) % 8))
      g == Spread(((s0 - (s0 % 32)) \div 4) + ((s1 % 4) * 64))
      b == Spread(((s0 * 8) % 256) - (((s0 * 8) % 256) % 8))
  IN  IF alpha # 0
        THEN <<r, g, b, IF s1 >= 128 THEN 255 ELSE 0>>
        ELSE <<r, g, b>>

\* lines 812-844
upsample(src, width, bytes, alpha, junk) ==
  LET n == IF alpha # 0 THEN 4 ELSE 3
  IN  [k \in 1..(width * n) |->
         LET x == (k - 1) \div n
         IN  UpsamplePixel(Rd(src, x * bytes, junk), Rd(src, x * bytes + 1, junk),
                           alpha)[((k - 1) % n) + 1]]

\* lines 846-878
bgr2rgb(src, width, bytes, alpha, junk) ==
  LET n == IF alpha # 0 THEN 4 ELSE 3
  IN  [k \in 1..(width * n) |->
         LET x == (k - 1) \div n
             c == (k - 1) % n
         IN  Rd(src, x * bytes + (IF c = 3 THEN 3 ELSE 2 - c), junk)]

\* lines 894-897, 906-908: the offset into cmap of byte c of pixel byte p
ColormapOffset(p, index, n, c) == (p - index) * n + c

\* lines 880-913
apply_colormap(src, width, cmap, alpha, index, junk) ==
  LET n == IF alpha THEN 4 ELSE 3
  IN  [k \in 1..(width * n) |->
         Rd(cmap, ColormapOffset(Rd(src, (k - 1) \div n, junk), index, n, (k - 1) % n),
            junk)]

\* lines 915-927: the difference is stored in a guchar
apply_index(src, width, index, junk) ==
  [k \in 1..width |-> (Rd(src, k - 1, junk) - index) % 256]

\* line 977: memcpy (row, buf, info->width * bpp)
memcpy(src, n, junk) == [k \in 1..n |-> Rd(src, k - 1, junk)]

----------------------------------------------------------------------------
(* read_line, lines 929-979 *)

\* lines 937-944: the line buffer is filled from the file; the results of
\* rle_read and fread are not looked at
ReadRaw(f, st, buf, i) ==
  IF i.imageCompression = TGA_COMP_RLE
    THEN LET r == rle_read(st, f, buf, i.width, i.bytes)
         IN  [f |-> r.f, buf |-> r.buf, short |-> r.ret = EOF,
              rle |-> [repeat |-> r.repeat, direct |-> r.direct, sample |-> r.sample]]
    ELSE [f |-> Advance(f, i.bytes * i.width),
          buf |-> WriteAt(buf, 0, freadBytes(f, i.bytes * i.width)),
          short |-> Avail(f, i.bytes * i.width) < i.bytes * i.width,
          rle |-> st]

\* lines 946-949
FlipIfAsked(buf, i) ==
  IF i.flipHoriz # 0 THEN flip_line(buf, i.width, i.bytes) ELSE buf

\* lines 951-978: which converter handles the line
Converter(i, convert_cmap) ==
  IF i.imageType = TGA_TYPE_COLOR
    THEN IF i.bpp = 16 \/ i.bpp = 15 THEN "upsample" ELSE "bgr2rgb"
    ELSE IF ~convert_cmap.null
      THEN "apply_colormap"
      ELSE IF i.imageType = TGA_TYPE_MAPPED THEN "apply_index" ELSE "memcpy"

\* lines 951-978: the bytes written to row
ConvertLine(buf, i, bpp, convert_cmap, junk) ==
  CASE Converter(i, convert_cmap) = "upsample" ->
         upsample(buf, i.width, i.bytes, i.alphaBits, junk)
    [] Converter(i, convert_cmap) = "bgr2rgb" ->
         bgr2rgb(buf, i.width, i.bytes, i.alphaBits, junk)
    [] Converter(i, convert_cmap) = "apply_colormap" ->
         apply_colormap(buf, i.width, convert_cmap.mem, i.alphaBits > 0,
                        i.colorMapIndex, junk)
    [] Converter(i, convert_cmap) = "apply_index" ->
         apply_index(buf, i.width, i.colorMapIndex, junk)
    [] OTHER -> memcpy(buf, i.width * bpp, junk)

\* the number of bytes of buf the converter reads for each pixel
ReadPerPixel(i, bpp, convert_cmap) ==
  CASE Converter(i, convert_cmap) = "upsample" -> 2
    [] Converter(i, convert_cmap) = "bgr2rgb" -> IF i.alphaBits # 0 THEN 4 ELSE 3
    [] Converter(i, convert_cmap) = "apply_colormap" -> 1
    [] Converter(i, convert_cmap) = "apply_index" -> 1
    [] OTHER -> bpp

\* lines 894, 906: some pixel of buf, less colorMapIndex, is no entry of a
\* table of length entries
LookupOutside(buf, i) ==
  \E x \in 0..(i.width - 1) :
    (At(buf, x) - i.colorMapIndex) \notin 0..(i.colorMapLength - 1)

\* lines 894-897, 906-908: some lookup reads outside the memory of cmap
LookupOutsideMemory(buf, i, cmap) ==
  LET n == IF i.alphaBits > 0 THEN 4 ELSE 3
  IN  \E x \in 0..(i.width - 1) :
        \/ ColormapOffset(At(buf, x), i.colorMapIndex, n, 0) < 0
        \/ ColormapOffset(At(buf, x), i.colorMapIndex, n, n - 1) >= Len(cmap.mem)

----------------------------------------------------------------------------
(* ReadImage, lines 981-1183 *)

GIMP_RGB == "GIMP_RGB"
GIMP_GRAY == "GIMP_GRAY"
GIMP_INDEXED == "GIMP_INDEXED"
GIMP_RGB_IMAGE == "GIMP_RGB_IMAGE"
GIMP_RGBA_IMAGE == "GIMP_RGBA_IMAGE"
GIMP_GRAY_IMAGE == "GIMP_GRAY_IMAGE"
GIMP_GRAYA_IMAGE == "GIMP_GRAYA_IMAGE"
GIMP_INDEXED_IMAGE == "GIMP_INDEXED_IMAGE"

\* gimp_drawable_get_bpp of a layer of the type (line 1120)
DrawableBpp(dtype) ==
  CASE dtype = GIMP_RGB_IMAGE     -> 3
    [] dtype = GIMP_RGBA_IMAGE    -> 4
    [] dtype = GIMP_GRAY_IMAGE    -> 1
    [] dtype = GIMP_GRAYA_IMAGE   -> 2
    [] dtype = GIMP_INDEXED_IMAGE -> 1

\* ImageFormat with a color map that ends at entry 256 promoted as well
ImageFormatOffByOne(i) ==
  CASE i.imageType = TGA_TYPE_MAPPED ->
         IF i.colorMapSize > 24
           THEN [itype |-> GIMP_RGB, dtype |-> GIMP_RGBA_IMAGE, convert |-> 4, gimp |-> 0]
           ELSE IF i.colorMapIndex + i.colorMapLength >= 256
             THEN [itype |-> GIMP_RGB, dtype |-> GIMP_RGB_IMAGE, convert |-> 3, gimp |-> 0]
             ELSE IF i.alphaBits > 0
               THEN [itype |-> GIMP_RGB, dtype |-> GIMP_RGBA_IMAGE, convert |-> 4,
                     gimp |-> 0]
               ELSE [itype |-> GIMP_INDEXED, dtype |-> GIMP_INDEXED_IMAGE, convert |-> 0,
                     gimp |-> 3]
    [] i.imageType = TGA_TYPE_GRAY ->
         [itype |-> GIMP_GRAY,
          dtype |-> IF i.alphaBits # 0 THEN GIMP_GRAYA_IMAGE ELSE GIMP_GRAY_IMAGE,
          convert |-> 0, gimp |-> 0]
    [] i.imageType = TGA_TYPE_COLOR ->
         [itype |-> GIMP_RGB,
          dtype |-> IF i.alphaBits # 0 THEN GIMP_RGBA_IMAGE ELSE GIMP_RGB_IMAGE,
          convert |-> 0, gimp |-> 0]

\* lines 1000-1052: the image and layer type, and the size of each entry of
\* the color map that is allocated (convert 0: no convert_cmap; gimp 0: no
\* gimp_cmap)
ImageFormat(i) ==
  CASE i.imageType = TGA_TYPE_MAPPED ->
         IF i.colorMapSize > 24
           THEN [itype |-> GIMP_RGB, dtype |-> GIMP_RGBA_IMAGE, convert |-> 4, gimp |-> 0]
           ELSE IF i.colorMapIndex + i.colorMapLength > 256
             THEN [itype |-> GIMP_RGB, dtype |-> GIMP_RGB_IMAGE, convert |-> 3, gimp |-> 0]
             ELSE IF i.alphaBits > 0
               THEN [itype |-> GIMP_RGB, dtype |-> GIMP_RGBA_IMAGE, convert |-> 4,
                     gimp |-> 0]
               ELSE [itype |-> GIMP_INDEXED, dtype |-> GIMP_INDEXED_IMAGE, convert |-> 0,
                     gimp |-> 3]
    [] i.imageType = TGA_TYPE_GRAY ->
         [itype |-> GIMP_GRAY,
          dtype |-> IF i.alphaBits # 0 THEN GIMP_GRAYA_IMAGE ELSE GIMP_GRAY_IMAGE,
          convert |-> 0, gimp |-> 0]
    [] i.imageType = TGA_TYPE_COLOR ->
         [itype |-> GIMP_RGB,
          dtype |-> IF i.alphaBits # 0 THEN GIMP_RGBA_IMAGE ELSE GIMP_RGB_IMAGE,
          convert |-> 0, gimp |-> 0]

\* lines 1000-1052
ChooseFormat ==
  /\ pc = "format"
  /\ \E junk \in Fresh :
       LET fmt == ImageFormat(info)
           cb  == (info.colorMapSize + 7) \div 8
       IN  dec' = [dec EXCEPT
             !.itype = fmt.itype,
             !.dtype = fmt.dtype,
             !.cmap_bytes = IF info.imageType = TGA_TYPE_MAPPED THEN cb ELSE 0,
             !.tga_cmap = IF info.imageType = TGA_TYPE_MAPPED
                            THEN Alloc(info.colorMapLength * cb, junk) ELSE NULL,
             !.convert_cmap = IF fmt.convert # 0
                                THEN Alloc(info.colorMapLength * fmt.convert, junk)
                                ELSE NULL,
             !.gimp_cmap = IF fmt.gimp # 0
                             THEN Alloc(info.colorMapLength * fmt.gimp, junk)
                             ELSE NULL]
  /\ pc' = "colormap"
  /\ UNCHANGED <<enc, out, fp, rle, info>>

\* lines 1063, 1066, 1069, 1081, 1084: the depth of the color map is handled
ColormapDepthOk(i, toConvert) ==
  \/ (toConvert /\ i.colorMapSize = 32)
  \/ i.colorMapSize = 24
  \/ i.colorMapSize = 16
  \/ i.colorMapSize = 15

\* lines 1063-1071, 1081-1086: the converted color map entries
ConvertColormap(i, tga_cmap, cmap_bytes, toConvert, junk) ==
  IF toConvert /\ i.colorMapSize = 32
    THEN bgr2rgb(tga_cmap, i.colorMapLength, cmap_bytes, 1, junk)
    ELSE IF i.colorMapSize = 24
      THEN bgr2rgb(tga_cmap, i.colorMapLength, cmap_bytes, 0, junk)
      ELSE upsample(tga_cmap, i.colorMapLength, cmap_bytes, i.alphaBits, junk)

\* lines 1054-1101
ReadColormap ==
  /\ pc = "colormap"
  /\ IF info.imageType # TGA_TYPE_MAPPED
       THEN /\ pc' = "alloc"
            /\ UNCHANGED <<fp, dec>>
       ELSE IF dec.cmap_bytes > 4
         THEN /\ Fail("File is truncated or corrupted")
              /\ UNCHANGED fp
         ELSE LET size == info.colorMapLength * dec.cmap_bytes
                  tga  == WriteAt(dec.tga_cmap.mem, 0, freadBytes(fp, size))
              IN  /\ fp' = Advance(fp, size)
                  /\ IF freadShort(fp, size)
                       THEN Fail("File is truncated or corrupted")
                       ELSE \E junk \in Fresh :
                         LET toConvert == ~dec.convert_cmap.null
                             cm == ConvertColormap(info, tga, dec.cmap_bytes,
                                                   toConvert, junk)
                             target == IF toConvert THEN dec.convert_cmap
                                                    ELSE dec.gimp_cmap
                         IN  IF ~ColormapDepthOk(info, toConvert)
                               THEN Fail("Unsupported colormap depth")
                               ELSE
                                 /\ dec' = [dec EXCEPT
                                      !.tga_cmap.mem = tga,
                                      !.convert_cmap.mem =
                                         IF toConvert THEN Store(@, 0, cm) ELSE @,
                                      !.gimp_cmap.mem =
                                         IF toConvert THEN @ ELSE Store(@, 0, cm),
                                      !.ub = @ \/ Len(cm) > Len(target.mem)]
                                 /\ pc' \in IF Len(cm) > Len(target.mem)
                                              THEN {"alloc", "crashed"}
                                              ELSE {"alloc"}
  /\ UNCHANGED <<enc, out, rle, info>>

\* lines 1103-1125: the image and its layer are made, the stripe buffer and
\* the line buffer allocated; gimp_tile_height () is max_tileheight.
\* pixels is the content of the layer's buffer, rects the rectangles set;
\* slotLine and rowLine tell which line read (counted from 0) a row of the
\* stripe buffer and a row of the layer hold.
NewImage ==
  /\ pc = "alloc"
  /\ \E th \in 1..MaxTileHeight, junk \in Fresh :
       dec' = [dec EXCEPT
         !.bpp = DrawableBpp(dec.dtype),
         !.max_tileheight = th,
         !.data = Alloc(info.width * th * DrawableBpp(dec.dtype), junk),
         !.buf = Alloc(info.width * info.bytes, junk),
         !.pixels = [r \in 1..info.height |-> <<>>],
         !.rowLine = [r \in 1..info.height |-> -1],
         !.slotLine = [k \in 1..th |-> -1],
         !.i = 0]
  /\ pc' = "stripe"
  /\ UNCHANGED <<enc, out, fp, rle, info>>

\* lines 1131-1133, 1154: the height of the stripe that starts at line i
StripeHeight(i, flipVert, height, max) ==
  IF flipVert # 0
    THEN LET th == IF i # 0 THEN max ELSE height % max
         IN  IF th = 0 THEN max ELSE th
    ELSE Min(max, height - i)

\* lines 1135, 1156: the first value of y
FirstY(flipVert) == IF flipVert # 0 THEN 1 ELSE 0

\* lines 1135, 1156: the loop over y goes on
MoreLines(y, tileheight, flipVert) ==
  IF flipVert # 0 THEN y <= tileheight ELSE y < tileheight

\* lines 1137, 1158: the row of the stripe buffer that line y goes to
StripeRow(y, tileheight, flipVert) ==
  IF flipVert # 0 THEN tileheight - y ELSE y

\* StripeTop with the stripes placed from the top in both orientations
StripeTopNoFlip(i, tileheight, flipVert, height) == i

\* lines 1142, 1163: the top row of the rectangle the stripe is set to
StripeTop(i, tileheight, flipVert, height) ==
  IF flipVert # 0 THEN height - i - tileheight ELSE i

\* lines 1129, 1152: the increment of i
StripeStep(tileheight, max, flipVert) ==
  IF flipVert # 0 THEN tileheight ELSE max

\* lines 1129-1135, 1152-1156: a stripe is begun
StripeBegin ==
  /\ pc = "stripe"
  /\ dec.i < info.height
  /\ dec' = [dec EXCEPT
       !.tileheight = StripeHeight(dec.i, info.flipVert, info.height,
                                   dec.max_tileheight),
       !.y = FirstY(info.flipVert)]
  /\ pc' = "line"
  /\ UNCHANGED <<enc, out, fp, rle, info>>

\* lines 1137-1138, 1158-1159: read_line (fp, row, buf, info, bpp,
\* convert_cmap) for the next line of the stripe
ReadLine ==
  /\ pc = "line"
  /\ MoreLines(dec.y, dec.tileheight, info.flipVert)
  /\ \E junk \in Fresh :
       LET raw  == ReadRaw(fp, rle, dec.buf.mem, info)
           buf1 == FlipIfAsked(raw.buf, info)
           dest == ConvertLine(buf1, info, dec.bpp, dec.convert_cmap, junk)
           kind == Converter(info, dec.convert_cmap)
           slot == StripeRow(dec.y, dec.tileheight, info.flipVert)
           off  == info.width * dec.bpp * slot
           read == info.width * ReadPerPixel(info, dec.bpp, dec.convert_cmap)
           ubNow == \/ read > Len(buf1)
                    \/ off + Len(dest) > Len(dec.data.mem)
                    \/ /\ kind = "apply_colormap"
                       /\ LookupOutsideMemory(buf1, info, dec.convert_cmap)
       IN  /\ fp' = raw.f
           /\ rle' = raw.rle
           /\ dec' = [dec EXCEPT
                !.buf.mem = buf1,
                !.data.mem = Store(@, off, dest),
                !.y = @ + 1,
                !.nread = @ + 1,
                !.slotLine[slot + 1] = dec.nread,
                !.short = @ \/ raw.short,
                !.conv = [kind |-> kind, wrote |-> Len(dest), read |-> read],
                !.lookupOut = @ \/ (kind = "apply_colormap" /\ LookupOutside(buf1, info)),
                !.ub = @ \/ ubNow]
           /\ pc' \in IF ubNow THEN {"line", "crashed"} ELSE {"line"}
  /\ UNCHANGED <<enc, out, info>>

\* lines 1141-1147, 1162-1167: gegl_buffer_set of the stripe, and the loop
\* increment of i
StripePut ==
  /\ pc = "line"
  /\ ~MoreLines(dec.y, dec.tileheight, info.flipVert)
  /\ LET top == StripeTop(dec.i, dec.tileheight, info.flipVert, info.height)
         len == info.width * dec.bpp
         InRect(r) == r - 1 >= top /\ r - 1 < top + dec.tileheight
     IN  dec' = [dec EXCEPT
           !.pixels = [r \in 1..info.height |->
                         IF InRect(r)
                           THEN Slice(dec.data.mem, (r - 1 - top) * len, len)
                           ELSE dec.pixels[r]],
           !.rowLine = [r \in 1..info.height |->
                          IF InRect(r) THEN dec.slotLine[r - top] ELSE dec.rowLine[r]],
           !.rects = Append(@, [y |-> top, height |-> dec.tileheight]),
           !.i = @ + StripeStep(dec.tileheight, dec.max_tileheight, info.flipVert)]
  /\ pc' = "stripe"
  /\ UNCHANGED <<enc, out, fp, rle, info>>

\* lines 1171-1182: the image is returned
ReturnImage ==
  /\ pc = "stripe"
  /\ dec.i >= info.height
  /\ dec' = [dec EXCEPT !.image = TRUE]
  /\ pc' = "done"
  /\ UNCHANGED <<enc, out, fp, rle, info>>

NextLoad ==
  \/ FooterProbe
  \/ ReadHeader
  \/ FixHeader
  \/ CheckSubformat
  \/ CheckColorMapType
  \/ SkipId
  \/ ChooseFormat
  \/ ReadColormap
  \/ NewImage
  \/ StripeBegin
  \/ ReadLine
  \/ StripePut
  \/ ReturnImage

----------------------------------------------------------------------------
(* The files load_image is given.  A file is described by its header       *)
(* fields h, the number cut of bytes missing at the end of its pixel data, *)
(* what follows the pixel data (foot) and how its pixels are chosen (pix). *)

LE16(v) == <<v % 256, v \div 256>>

LE32(v) == <<v % 256, (v \div 256) % 256, (v \div 65536) % 256, v \div 16777216>>

H(code, cmtype, index, length, size, width, height, bpp, desc) ==
  [idLength |-> 0, colorMapType |-> cmtype, code |-> code, colorMapIndex |-> index,
   colorMapLength |-> length, colorMapSize |-> size, width |-> width,
   height |-> height, bpp |-> bpp, desc |-> desc]

\* the 18 header bytes, laid out as lines 493-541 read them
HeaderBytes(h) ==
  <<h.idLength, h.colorMapType, h.code>> \o LE16(h.colorMapIndex)
    \o LE16(h.colorMapLength) \o <<h.colorMapSize, 0, 0, 0, 0>>
    \o LE16(h.width) \o LE16(h.height) \o <<h.bpp, h.desc>>

IdBytes(h) == [k \in 1..h.idLength |-> 73]

ColormapBytes(h) ==
  [k \in 1..(h.colorMapLength * ((h.colorMapSize + 7) \div 8)) |-> (k * 7 + 3) % 256]

\* byte c of pixel x of line r of the file
PixelByte(h, pix, r, x, c) ==
  IF pix # "any"
    THEN IF pix = "low" THEN 0 ELSE 255
    ELSE IF h.code \in {1, 9}
      THEN (h.colorMapIndex + ((r + x) % Max(h.colorMapLength, 1))) % 256
      ELSE (17 * (r + 1) + 5 * x + c) % 256

FileLine(h, pix, r) ==
  LET b == (h.bpp + 7) \div 8
  IN  [k \in 1..(h.width * b) |-> PixelByte(h, pix, r, (k - 1) \div b, (k - 1) % b)]

RECURSIVE PixelData(_, _, _)
\* the pixel data of lines r .. height - 1, RLE packets for the RLE types
PixelData(h, pix, r) ==
  IF r >= h.height \/ (h.bpp + 7) \div 8 \notin 1..4
    THEN <<>>
    ELSE (IF h.code \in {9, 10, 11}
            THEN rle_write(FileLine(h, pix, r), h.width, (h.bpp + 7) \div 8)
            ELSE FileLine(h, pix, r))
           \o PixelData(h, pix, r + 1)

Footer(offset) == LE32(offset) \o <<0, 0, 0, 0>> \o magic

MkFile(h, cut, foot, pix) ==
  LET pd   == PixelData(h, pix, 0)
      body == HeaderBytes(h) \o IdBytes(h) \o ColormapBytes(h)
                \o SubSeq(pd, 1, Len(pd) - cut)
      ext  == [k \in 1..ExtensionSize |-> 69]
  IN  CASE foot = "none"     -> File(body)
        [] foot = "nomagic"  -> File(body \o [k \in 1..FooterSize |-> 1])
        [] foot = "magic0"   -> File(body \o Footer(0))
        [] foot = "ext"      -> File(body \o ext \o Footer(Len(body)))
        [] foot = "extshort" -> File(body \o Footer(HeaderSize))
        [] foot = "ioerror"  -> [File(body \o Footer(0)) EXCEPT !.good = Len(body)]
        [] foot = "noheader" -> File(SubSeq(body, 1, 10))

\* complete and truncated gray and colour files, raw and RLE, in both
\* vertical and horizontal orientations
LineFiles ==
  {MkFile(H(code, 0, 0, 0, 0, w, h, IF code \in {3, 11} THEN 8 ELSE 24, desc),
          cut, "none", "any") :
     code \in {2, 3, 10, 11}, w \in 1..MaxWidth, h \in 1..MaxHeight,
     desc \in {0, 16, 32}, cut \in 0..2}

\* the colour and gray sub-formats, with the alpha bits found in headers
DirectFiles ==
  {MkFile(H(cb[1], 0, 0, 0, 0, MaxWidth, 2, cb[2], a), 0, "none", "any") :
     cb \in {<<2, 15>>, <<2, 16>>, <<2, 24>>, <<2, 32>>, <<10, 16>>, <<10, 32>>,
             <<3, 8>>, <<3, 15>>, <<3, 16>>, <<11, 16>>},
     a \in {0, 1, 8, 32 + 8}}

\* colour-mapped files
MappedFiles ==
  {MkFile(H(code, 1, il[1], il[2], size, MaxWidth, 2, 8, a), 0, "none", pix) :
     code \in {1, 9}, il \in {<<0, 2>>, <<1, 2>>, <<255, 2>>, <<0, 0>>},
     size \in {8, 15, 16, 24, 32, 33}, a \in {0, 1, 8, 32}, pix \in {"any", "low"}}
    \cup {MkFile(H(1, 1, 0, 300, 24, MaxWidth, 2, 8, a), 0, "none", "any") : a \in {0, 1}}
    \cup {MkFile(H(1, 1, 0, 2, 24, 1, 1, 8, 0), 3, "none", "any")}

\* files with and without a footer and an extension area, and broken headers
FooterFiles ==
  {MkFile(H(code, 0, 0, 0, 0, w, 1, 8, 32), 0, foot, "any") :
     code \in {3, 11}, w \in {1, 8},
     foot \in {"none", "nomagic", "magic0", "ext", "extshort", "ioerror", "noheader"}}
    \cup {MkFile([H(3, 0, 0, 0, 0, 1, 1, 8, 32) EXCEPT !.idLength = 2], 0, foot, "any") :
            foot \in {"none", "magic0"}}
    \cup {MkFile(H(code, cm, 0, 0, 0, 1, 1, 8, 32), 0, "none", "any") :
            code \in {0, 3, 4}, cm \in {0, 1}}

Files == LineFiles \cup DirectFiles \cup MappedFiles \cup FooterFiles

NoEnc == [buf |-> <<>>, width |-> 0, bytes |-> 0]

Init ==
  /\ pc = "open"
  /\ fp \in Files
  /\ enc = NoEnc
  /\ out = <<>>
  /\ rle = RleZero
  /\ info = NoInfo
  /\ dec = DecInit

Spec == Init /\ [][NextLoad]_vars

----------------------------------------------------------------------------
(* The header sweep: every bits-per-pixel and descriptor alpha value under *)
(* every type code, and the color map fields of colour-mapped headers.     *)

TypeCodes == {0, 1, 2, 3, 9, 10, 11}

SweepFiles ==
  {MkFile(H(code, IF code \in {1, 9} THEN 1 ELSE 0, 0,
            IF code \in {1, 9} THEN 2 ELSE 0, IF code \in {1, 9} THEN size ELSE 0,
            1, 1, bpp, a), 0, "none", "any") :
     code \in TypeCodes, bpp \in 0..255, a \in 0..15, size \in {24, 32}}

MappedSweepFiles ==
  {MkFile(H(code, 1, il[1], il[2], size, 1, 1, 8, a), 0, "none", "any") :
     code \in {1, 9}, a \in 0..15, size \in {8, 15, 16, 24, 25, 32, 33},
     il \in {<<0, 0>>, <<0, 1>>, <<0, 256>>, <<0, 257>>, <<1, 255>>, <<1, 256>>,
             <<255, 1>>, <<255, 2>>}}

\* every color map type under every type code, for sub-formats that are
\* handled and for ones that are not
ColorMapTypeFiles ==
  {MkFile(H(code, cm, 0, 2, 24, 1, 1, bpp, a), 0, "none", "any") :
     code \in TypeCodes, cm \in {0, 1, 2, 255}, bpp \in {7, 8, 16, 24}, a \in {0, 8}}

InitResolve ==
  /\ pc = "open"
  /\ fp \in SweepFiles \cup MappedSweepFiles \cup ColorMapTypeFiles \cup Files
  /\ enc = NoEnc
  /\ out = <<>>
  /\ rle = RleZero
  /\ info = NoInfo
  /\ dec = DecInit

SpecResolve == InitResolve /\ [][NextLoad]_vars

----------------------------------------------------------------------------
(* Properties of the decoder *)

ProbeErrors == {"Cannot read footer", "Cannot read extension"}

\* the header was read and its fields corrected
PastQuirks ==
  /\ pc \notin {"open", "header", "quirks"}
  /\ dec.header # <<>>

\* the sub-format checks were made
PastSubformat == PastQuirks /\ pc # "subformat"

\* the sub-format checks were passed
SubformatAccepted ==
  PastSubformat /\ ~(pc = "failed" /\ dec.error \in {"Unknown image type",
                                                     "Unhandled sub-format"})

\* ReadImage chose the image type
PastFormat == PastSubformat /\ dec.dtype # ""

\* C3: when the pixel data ends early (a raw line or, in an RLE stream, a
\* packet header or a record is not read in full), no image is returned.
C3_ShortDataFails == ~(pc = "done" /\ dec.short)

\* C4 as claimed: no failure of the footer and extension probe ends the load.
C4_ProbeNeverFatal == ~(pc = "failed" /\ dec.error \in ProbeErrors)

\* the footer can be sought, and it or the extension area it points to
\* cannot be read
ProbeFatal(f) ==
  /\ Len(f.data) >= FooterSize
  /\ \/ f.good < Len(f.data)
     \/ LET footer == Slice(f.data, Len(f.data) - FooterSize, FooterSize)
            offset == footer[1] + 256 * footer[2] + 65536 * footer[3]
                        + 16777216 * footer[4]
        IN  /\ SubSeq(footer, 9, 26) = magic
            /\ offset # 0
            /\ offset + ExtensionSize > f.good

\* C4, amended: the load is aborted by the probe exactly when the footer
\* can be sought but not read, or carries the magic and a nonzero extension
\* offset whose 495 bytes cannot be read; then no header is read and no
\* image made.  In every other case (file shorter than a footer, no magic,
\* offset 0, extension read) the header is read next, at offset 0.
C4_ProbeFatalCases ==
  pc # "open" =>
    /\ (pc = "failed" /\ dec.error \in ProbeErrors) <=> ProbeFatal(fp)
    /\ ProbeFatal(fp) => dec.header = <<>> /\ ~dec.image
    /\ ~ProbeFatal(fp) /\ dec.header # <<>> => dec.headerPos = 0

C4_Witness ==
  /\ pc = "failed"
  /\ dec.error = "Cannot read extension"
  /\ fp.good >= HeaderSize
  /\ ~dec.image

\* the table of accepted (kind, bitsPerPixel, alphaBits)
InTable(kind, bpp, alpha) ==
  \/ kind = TGA_TYPE_MAPPED /\ bpp = 8
  \/ kind = TGA_TYPE_COLOR /\ bpp \in {15, 24} /\ alpha = 0
  \/ kind = TGA_TYPE_COLOR /\ bpp = 16 /\ alpha \in {0, 1}
  \/ kind = TGA_TYPE_COLOR /\ bpp = 32 /\ alpha = 8
  \/ kind = TGA_TYPE_GRAY /\ bpp = 8
  \/ kind = TGA_TYPE_GRAY /\ bpp \in {15, 16} /\ alpha = 8

\* C5: a header of a known kind passes the sub-format checks exactly when
\* its (kind, bitsPerPixel, corrected alphaBits) is in the table; every other
\* one is rejected as an unhandled sub-format and yields no image.
C5_SubformatTable ==
  PastSubformat /\ KnownType(info) =>
    /\ SubformatAccepted <=> InTable(info.imageType, info.bpp, info.alphaBits)
    /\ ~SubformatAccepted =>
         /\ pc = "failed"
         /\ dec.error = "Unhandled sub-format"
         /\ ~dec.image
         /\ dec.dtype = ""

C5_Witness ==
  /\ pc = "done"
  /\ dec.image
  /\ info.imageType = TGA_TYPE_GRAY
  /\ info.bpp = 15
  /\ info.alphaBits = 8

\* the alpha bits the header corrections are to give for header bytes h
CorrectedAlpha(h) ==
  LET kind == ImageType(At(h, 2))
      bpp  == At(h, 16)
      a0   == At(h, 17) % 16
      a1   == IF a0 = bpp THEN 0 ELSE a0
  IN  IF a1 = 0 /\ \/ kind = TGA_TYPE_MAPPED /\ At(h, 7) = 32
                   \/ kind = TGA_TYPE_COLOR /\ bpp = 32
                   \/ kind = TGA_TYPE_GRAY /\ bpp = 16
        THEN 8
        ELSE a1

\* C6: before anything is validated alphaBits (the low 4 bits of the
\* descriptor) is corrected: first to 0 if it equals bitsPerPixel, then, if
\* it is 0, to 8 for Mapped with 32-bit color map entries, Truecolor with 32
\* bpp and Grayscale with 16 bpp; otherwise it keeps the header's value.
C6_AlphaCorrection ==
  /\ PastQuirks => info.alphaBits = CorrectedAlpha(dec.header)
  /\ pc = "subformat" => dec.error = ""

C6_Witness ==
  /\ pc = "subformat"
  /\ info.imageType = TGA_TYPE_MAPPED
  /\ At(dec.header, 16) = 8
  /\ At(dec.header, 17) % 16 = 8
  /\ info.colorMapSize = 32
  /\ info.alphaBits = 8

\* C7: a Mapped header that passed validation stays Indexed, with a palette
\* of 3 bytes per entry, exactly when colorMapEntrySize <= 24 and
\* colorMapIndex + colorMapLength <= 256 and the corrected alphaBits is 0;
\* otherwise the image is direct colour (RGB or RGBA) with no palette.
C7_IndexedOrPromoted ==
  PastFormat /\ info.imageType = TGA_TYPE_MAPPED =>
    LET stays == /\ info.colorMapSize <= 24
                 /\ info.colorMapIndex + info.colorMapLength <= 256
                 /\ info.alphaBits = 0
    IN  /\ stays => /\ dec.itype = GIMP_INDEXED
                    /\ dec.dtype = GIMP_INDEXED_IMAGE
                    /\ Len(dec.gimp_cmap.mem) = 3 * info.colorMapLength
                    /\ dec.convert_cmap.null
        /\ ~stays => /\ dec.itype = GIMP_RGB
                     /\ dec.dtype \in {GIMP_RGB_IMAGE, GIMP_RGBA_IMAGE}
                     /\ dec.gimp_cmap.null

C7_Witness ==
  /\ pc = "done"
  /\ info.imageType = TGA_TYPE_MAPPED
  /\ info.colorMapLength = 300
  /\ info.alphaBits = 0
  /\ dec.dtype = GIMP_RGB_IMAGE

\* C8: every line is converted in the layout resolved for the image: the
\* converter writes width * (bytes per pixel of the layer) bytes and reads
\* width * info.bytes bytes of the line buffer.
C8_LineLayout ==
  PastFormat /\ dec.nread > 0 =>
    /\ dec.conv.wrote = info.width * DrawableBpp(dec.dtype)
    /\ dec.conv.read = info.width * info.bytes

\* C9: a pixel whose index, less colorMapIndex, is no entry of the color
\* map makes the decode fail.
C9_LookupChecked == PastFormat /\ dec.lookupOut => pc = "failed"

\* the rectangles set are inside the image and each row is in exactly one
RectsTile(rects, height) ==
  /\ \A k \in 1..Len(rects) :
       rects[k].height >= 1 /\ rects[k].y >= 0 /\ rects[k].y + rects[k].height <= height
  /\ \A r \in 0..(height - 1) :
       Cardinality({k \in 1..Len(rects) :
                      r >= rects[k].y /\ r < rects[k].y + rects[k].height}) = 1

\* C10: in the image returned, line r of the file (counted from 0) is row r
\* when descriptor bit 5 is set and row height - 1 - r when it is clear, for
\* every height and tile height; the stripes set lie inside the image, do
\* not overlap and cover every row.
C10_Orientation ==
  pc = "done" =>
    /\ dec.nread = info.height
    /\ \A r \in 0..(info.height - 1) :
         dec.rowLine[r + 1] =
           IF (At(dec.header, 17) \div 32) % 2 = 1 THEN r ELSE info.height - 1 - r
    /\ RectsTile(dec.rects, info.height)

C10_Witness ==
  /\ pc = "done"
  /\ (At(dec.header, 17) \div 32) % 2 = 0
  /\ info.height = 4
  /\ dec.max_tileheight = 3
  /\ Len(dec.rects) = 2
  /\ dec.rowLine = <<3, 2, 1, 0>>
  /\ ~dec.short

----------------------------------------------------------------------------
(* save_image, lines 1186-1427.  In the specifications that export, enc is *)
(* the image handed to save_image and the locals of save_image:            *)
(* [phase, decoded, dtype, width, height, pixels, cmap, num_colors, rle,   *)
(* origin, row, log, ub].  pixels holds the rows of the drawable's buffer  *)
(* in its own format, cmap the RGB triples of gimp_image_get_colormap, log *)
(* what was written to the file, piece by piece.                           *)

GIMP_INDEXEDA_IMAGE == "GIMP_INDEXEDA_IMAGE"

\* lines 96-97
ORIGIN_TOP_LEFT == 0
ORIGIN_BOTTOM_LEFT == 1

\* the bytes of a pixel in the drawable's buffer (gegl_buffer_get with the
\* buffer's own format, lines 1291, 1363-1373)
BufferBpp(dtype) ==
  IF dtype = GIMP_INDEXEDA_IMAGE THEN 2 ELSE DrawableBpp(dtype)

\* lines 1292, 1299, 1306, 1313, 1320
OutBpp(dtype) ==
  CASE dtype \in {GIMP_INDEXED_IMAGE, GIMP_INDEXEDA_IMAGE} -> 1
    [] dtype = GIMP_GRAY_IMAGE  -> 1
    [] dtype = GIMP_GRAYA_IMAGE -> 2
    [] dtype = GIMP_RGB_IMAGE   -> 3
    [] dtype = GIMP_RGBA_IMAGE  -> 4

\* lines 1242, 1253, 1262: header[1]
SaveColorMapType(dtype) ==
  IF dtype \in {GIMP_INDEXED_IMAGE, GIMP_INDEXEDA_IMAGE} THEN 1 ELSE 0

\* lines 1243, 1254, 1266, 1270: header[2]
SaveTypeCode(dtype, compress) ==
  CASE dtype \in {GIMP_INDEXED_IMAGE, GIMP_INDEXEDA_IMAGE} -> IF compress THEN 9 ELSE 1
    [] dtype \in {GIMP_RGB_IMAGE, GIMP_RGBA_IMAGE}      -> IF compress THEN 10 ELSE 2
    [] OTHER                                            -> IF compress THEN 11 ELSE 3

\* lines 1245-1246, 1256-1257, 1273: the value header[5], header[6] hold
SaveMapLength(dtype, num_colors) ==
  CASE dtype = GIMP_INDEXED_IMAGE  -> num_colors
    [] dtype = GIMP_INDEXEDA_IMAGE -> num_colors + 1
    [] OTHER                       -> 0

\* lines 1247, 1258, 1273: header[7]
SaveMapSize(dtype) ==
  CASE dtype = GIMP_INDEXED_IMAGE  -> 24
    [] dtype = GIMP_INDEXEDA_IMAGE -> 32
    [] OTHER                       -> 0

\* lines 1293, 1300, 1307, 1314, 1321: header[16]
SaveBitsPerPixel(dtype) ==
  CASE dtype \in {GIMP_INDEXED_IMAGE, GIMP_INDEXEDA_IMAGE} -> 8
    [] dtype = GIMP_GRAY_IMAGE  -> 8
    [] dtype = GIMP_GRAYA_IMAGE -> 16
    [] dtype = GIMP_RGB_IMAGE   -> 24
    [] dtype = GIMP_RGBA_IMAGE  -> 32

\* SaveDescriptor with bit 5 set for the bottom-left origin
SaveDescriptorBottomUp(dtype, origin) ==
  IF dtype \in {GIMP_GRAYA_IMAGE, GIMP_RGBA_IMAGE}
    THEN IF origin # 0 THEN 40 ELSE 8
    ELSE IF origin # 0 THEN 32 ELSE 0

\* lines 1294, 1301, 1308, 1315, 1322: header[17] (0x20 = 32, 0x28 = 40)
SaveDescriptor(dtype, origin) ==
  IF dtype \in {GIMP_GRAYA_IMAGE, GIMP_RGBA_IMAGE}
    THEN IF origin # 0 THEN 8 ELSE 40
    ELSE IF origin # 0 THEN 0 ELSE 32

\* lines 1236-1324: the 18 bytes of header; each is a guchar
SaveHeaderBytes(e) ==
  LET len == SaveMapLength(e.dtype, e.num_colors)
      yo  == IF e.origin # 0 THEN 0 ELSE e.height
  IN  << 0, SaveColorMapType(e.dtype), SaveTypeCode(e.dtype, e.rle),
         0, 0, len % 256, (len \div 256) % 256, SaveMapSize(e.dtype),
         0, 0, yo % 256, (yo \div 256) % 256,
         e.width % 256, (e.width \div 256) % 256,
         e.height % 256, (e.height \div 256) % 256,
         SaveBitsPerPixel(e.dtype), SaveDescriptor(e.dtype, e.origin) >>

\* lines 1332-1337: the palette of an indexed image, blue first
SavePaletteRGB(cmap, num_colors) ==
  [k \in 1..(3 * num_colors) |-> At(cmap, ((k - 1) \div 3) * 3 + 2 - ((k - 1) % 3))]

\* lines 1342-1353: the palette of an indexed image with alpha, and the
\* entry added after it
SavePaletteRGBA(cmap, num_colors) ==
  [k \in 1..(4 * num_colors) |->
     IF (k - 1) % 4 = 3 THEN 255
                        ELSE At(cmap, ((k - 1) \div 4) * 3 + 2 - ((k - 1) % 4))]
    \o <<0, 0, 0, 0>>

\* lines 1329-1354
SavePaletteBytes(e) ==
  CASE e.dtype = GIMP_INDEXED_IMAGE  -> SavePaletteRGB(e.cmap, e.num_colors)
    [] e.dtype = GIMP_INDEXEDA_IMAGE -> SavePaletteRGBA(e.cmap, e.num_colors)
    [] OTHER                         -> <<>>

\* SaveSourceRow with the rows taken from the top whatever the origin
SaveSourceRowTopDown(row, height, origin) == row

\* lines 1361-1374: the row of the buffer that is written row-th
SaveSourceRow(row, height, origin) ==
  IF origin # 0 THEN height - (row + 1) ELSE row

\* lines 1386-1392: data[i] is a guchar
SaveIndexedAlpha(pixels, width, num_colors, junk) ==
  [k \in 1..width |->
     IF Rd(pixels, (k - 1) * 2 + 1, junk) > 127
       THEN Rd(pixels, (k - 1) * 2, junk)
       ELSE num_colors % 256]

\* lines 1376-1397: data, made from the width * OutBpp bytes at pixels
SaveConvert(pixels, e, junk) ==
  CASE e.dtype = GIMP_RGB_IMAGE      -> bgr2rgb(pixels, e.width, OutBpp(e.dtype), 0, junk)
    [] e.dtype = GIMP_RGBA_IMAGE     -> bgr2rgb(pixels, e.width, OutBpp(e.dtype), 1, junk)
    [] e.dtype = GIMP_INDEXEDA_IMAGE ->
         SaveIndexedAlpha(pixels, e.width, e.num_colors, junk)
    [] OTHER                         -> memcpy(pixels, e.width * OutBpp(e.dtype), junk)

\* lines 1399-1406
SaveWrite(data, e) ==
  IF e.rle THEN rle_write(data, e.width, OutBpp(e.dtype)) ELSE data

\* lines 1417-1419
SaveFooterBytes == <<0, 0, 0, 0, 0, 0, 0, 0>> \o magic

\* what a piece written to the file is and where it lies
Logged(e, what, from, bytes) ==
  Append(e.log, [what |-> what, from |-> from, to |-> from + Len(bytes)])

\* an image and the locals of save_image before save_image runs
Image(dtype, width, height, pixels, cmap, num_colors, decoded) ==
  [phase |-> "export", decoded |-> decoded, dtype |-> dtype, width |-> width,
   height |-> height, pixels |-> pixels, cmap |-> cmap, num_colors |-> num_colors,
   rle |-> FALSE, origin |-> ORIGIN_TOP_LEFT, row |-> 0, log |-> <<>>, ub |-> FALSE]

\* no image yet: load_image is to make it
NoImage ==
  [Image("", 0, 0, <<>>, <<>>, 0, FALSE) EXCEPT !.phase = "load"]

\* the image load_image returned (lines 1103-1120, 1171-1182)
DecodedImage ==
  Image(dec.dtype, info.width, info.height, dec.pixels,
        IF dec.gimp_cmap.null THEN <<>> ELSE dec.gimp_cmap.mem,
        IF dec.gimp_cmap.null THEN 0 ELSE info.colorMapLength, TRUE)

\* lines 1211-1234: save_image is called on an image, either one that is
\* open or the one load_image returned; the options are read and the file
\* opened for writing (opened = FALSE: g_fopen failed)
SaveOpen ==
  /\ \/ pc = "export" /\ enc.phase = "export"
     \/ pc = "done" /\ enc.phase = "load"
  /\ \E compress \in BOOLEAN, origin \in {ORIGIN_TOP_LEFT, ORIGIN_BOTTOM_LEFT},
        opened \in BOOLEAN :
       /\ enc' = [(IF pc = "done" THEN DecodedImage ELSE enc) EXCEPT
                    !.phase = "save", !.rle = compress, !.origin = origin]
       /\ pc' = IF opened THEN "save" ELSE "notsaved"
  /\ out' = <<>>
  /\ fp' = File(<<>>)
  /\ info' = NoInfo
  /\ dec' = DecInit
  /\ UNCHANGED rle

\* lines 1236-1327
SaveHeader ==
  /\ pc = "save"
  /\ out' = out \o SaveHeaderBytes(enc)
  /\ enc' = [enc EXCEPT !.log = Logged(enc, "header", Len(out), SaveHeaderBytes(enc))]
  /\ pc' = "palette"
  /\ UNCHANGED <<fp, rle, info, dec>>

\* lines 1329-1357
SavePalette ==
  /\ pc = "palette"
  /\ out' = out \o SavePaletteBytes(enc)
  /\ enc' = [enc EXCEPT
       !.log = IF enc.dtype \in {GIMP_INDEXED_IMAGE, GIMP_INDEXEDA_IMAGE}
                 THEN Logged(enc, "palette", Len(out), SavePaletteBytes(enc))
                 ELSE @,
       !.row = 0]
  /\ pc' = "rows"
  /\ UNCHANGED <<fp, rle, info, dec>>

\* lines 1359-1410: one row.  gegl_buffer_get stores width * BufferBpp bytes
\* at pixels, which has width * OutBpp bytes; what does not fit lands
\* outside, and reading it back gives what was stored (kept) or anything.
SaveRow ==
  /\ pc = "rows"
  /\ enc.row < enc.height
  /\ \E junk \in Fresh, kept \in BOOLEAN :
       LET native == enc.pixels[SaveSourceRow(enc.row, enc.height, enc.origin) + 1]
           size   == enc.width * OutBpp(enc.dtype)
           over   == Len(native) > size
           pixels == IF kept THEN native ELSE SubSeq(native, 1, Min(size, Len(native)))
           bytes  == SaveWrite(SaveConvert(pixels, enc, junk), enc)
       IN  /\ over \/ kept
           /\ out' = out \o bytes
           /\ enc' = [enc EXCEPT !.log = Logged(enc, "row", Len(out), bytes),
                                 !.row = @ + 1,
                                 !.ub = @ \/ over]
           /\ pc' \in IF over THEN {"rows", "crashed"} ELSE {"rows"}
  /\ UNCHANGED <<fp, rle, info, dec>>

\* lines 1412-1426: the buffers are freed (which may abort when the heap was
\* written outside an allocation), then the footer is written and the file
\* closed
SaveFooter ==
  /\ pc = "rows"
  /\ enc.row >= enc.height
  /\ \/ /\ out' = out \o SaveFooterBytes
        /\ enc' = [enc EXCEPT !.log = Logged(enc, "footer", Len(out), SaveFooterBytes)]
        /\ pc' = "saved"
     \/ /\ enc.ub
        /\ pc' = "crashed"
        /\ UNCHANGED <<out, enc>>
  /\ UNCHANGED <<fp, rle, info, dec>>

\* lines 438-448: the file written is opened by load_image, in the process
\* that wrote it
Reload ==
  /\ pc = "saved"
  /\ fp' = File(out)
  /\ enc' = [enc EXCEPT !.phase = "reload"]
  /\ info' = NoInfo
  /\ dec' = DecInit
  /\ pc' = "open"
  /\ UNCHANGED <<out, rle>>

NextSave ==
  \/ NextLoad
  \/ SaveOpen
  \/ SaveHeader
  \/ SavePalette
  \/ SaveRow
  \/ SaveFooter
  \/ Reload

----------------------------------------------------------------------------
(* Export and reload.  load_image decodes a well-formed file, save_image   *)
(* writes the image it returned under each setting of the options, and     *)
(* load_image decodes what was written; or save_image is handed an indexed *)
(* image that is open in the program.                                      *)

\* the sub-formats of well-formed files: type code, color map type, index,
\* length and entry size, bits per pixel and alpha bits
TripFormats ==
  { <<3, 0, 0, 0, 0, 8, 0>>,   <<11, 0, 0, 0, 0, 8, 0>>,
    <<3, 0, 0, 0, 0, 16, 8>>,  <<11, 0, 0, 0, 0, 16, 8>>,
    <<2, 0, 0, 0, 0, 24, 0>>,  <<10, 0, 0, 0, 0, 24, 0>>,
    <<2, 0, 0, 0, 0, 32, 8>>,  <<10, 0, 0, 0, 0, 32, 8>>,
    <<2, 0, 0, 0, 0, 16, 0>>,  <<2, 0, 0, 0, 0, 16, 1>>,
    <<1, 1, 0, 2, 24, 8, 0>>,  <<9, 1, 0, 2, 24, 8, 0>>,
    <<1, 1, 1, 2, 24, 8, 0>>,  <<1, 1, 0, 2, 16, 8, 0>> }

TripFiles ==
  {MkFile(H(t[1], t[2], t[3], t[4], t[5], w, h, t[6], t[7] + top), 0, "none", "any") :
     t \in TripFormats, w \in 1..MaxWidth, h \in 1..MaxHeight, top \in {0, 32}}
    \cup {MkFile(H(t[1], t[2], t[3], t[4], t[5], 1, 2, t[6], t[7]), 0, "magic0", "any") :
            t \in TripFormats}

\* palette sizes of the indexed images that are exported
PaletteSizes == {1, 2, 255, 256}

\* the alpha values of the pixels of those images, in turn
AlphaValues == <<0, 127, 128, 255>>

\* an indexed image with alpha: pixel x of row r has color index
\* num_colors - 1 - ((r + x) % num_colors) and alpha AlphaValues[..]
IndexedAlphaImage(n, w, h, k) ==
  Image(GIMP_INDEXEDA_IMAGE, w, h,
        [r \in 1..h |->
           [j \in 1..(2 * w) |->
              IF j % 2 = 1
                THEN n - 1 - ((r - 1 + (j - 1) \div 2) % n)
                ELSE AlphaValues[((r - 1 + (j - 1) \div 2 + k) % 4) + 1]]],
        [j \in 1..(3 * n) |-> (j * 5 + 1) % 256], n, FALSE)

IndexedImage(n, w, h) ==
  Image(GIMP_INDEXED_IMAGE, w, h,
        [r \in 1..h |-> [j \in 1..w |-> n - 1 - ((r - 1 + j - 1) % n)]],
        [j \in 1..(3 * n) |-> (j * 5 + 1) % 256], n, FALSE)

OpenImages ==
  {IndexedAlphaImage(n, w, h, k) :
     n \in PaletteSizes, w \in 1..MaxWidth, h \in 1..2, k \in 0..3}
    \cup {IndexedImage(n, w, h) : n \in PaletteSizes, w \in 1..MaxWidth, h \in 1..2}

InitSave ==
  /\ \/ /\ pc = "open"
        /\ fp \in TripFiles
        /\ enc = NoImage
     \/ /\ pc = "export"
        /\ fp = File(<<>>)
        /\ enc \in OpenImages
  /\ out = <<>>
  /\ rle = RleZero
  /\ info = NoInfo
  /\ dec = DecInit

SpecSave == InitSave /\ [][NextSave]_vars

----------------------------------------------------------------------------
(* Properties of the encoder *)

\* save_image wrote the file to its end (and load_image may be reading it)
Saved == enc.phase \in {"save", "reload"} /\ pc \notin {"save", "palette", "rows",
                                                         "notsaved", "crashed"}
        /\ Len(enc.log) > 0 /\ enc.log[Len(enc.log)].what = "footer"

\* C11: the image load_image makes of the file save_image wrote for a decoded
\* image has the width, height, layer type, rows and palette of that image,
\* whatever the rle and origin options; neither the export nor the second
\* decode fails.
C11_RoundTrip ==
  enc.decoded =>
    /\ pc \notin {"failed", "crashed"}
    /\ pc = "done" /\ enc.phase = "reload" =>
         /\ info.width = enc.width
         /\ info.height = enc.height
         /\ dec.dtype = enc.dtype
         /\ dec.pixels = enc.pixels
         /\ enc.dtype = GIMP_INDEXED_IMAGE =>
              /\ dec.gimp_cmap.mem = enc.cmap
              /\ info.colorMapLength = enc.num_colors

C11_Witness ==
  /\ pc = "done"
  /\ enc.phase = "reload"
  /\ enc.decoded
  /\ enc.rle
  /\ enc.origin = ORIGIN_BOTTOM_LEFT
  /\ enc.dtype = GIMP_RGBA_IMAGE
  /\ enc.height = 3
  /\ enc.width = 2
  /\ enc.pixels[1] # enc.pixels[3]
  /\ dec.pixels = enc.pixels

\* the header table of the six kinds: color map type, type code, entries
\* added to the palette, entry size, bits per pixel, alpha bits
HeaderTable(dtype) ==
  CASE dtype = GIMP_INDEXED_IMAGE  -> <<1, 1, 0, 24, 8, 0>>
    [] dtype = GIMP_INDEXEDA_IMAGE -> <<1, 1, 1, 32, 8, 0>>
    [] dtype = GIMP_GRAY_IMAGE     -> <<0, 3, 0, 0, 8, 0>>
    [] dtype = GIMP_GRAYA_IMAGE    -> <<0, 3, 0, 0, 16, 8>>
    [] dtype = GIMP_RGB_IMAGE      -> <<0, 2, 0, 0, 24, 0>>
    [] dtype = GIMP_RGBA_IMAGE     -> <<0, 2, 0, 0, 32, 8>>

\* save_image wrote the header
HeaderWritten ==
  /\ enc.phase \in {"save", "reload"}
  /\ Len(enc.log) > 0
  /\ Len(out) >= HeaderSize

\* C12: the 18 bytes save_image writes first are those of the header table
\* for the kind of the image: idLength 0, the kind's color map type, type
\* code (plus 8 exactly under rle), color map index 0, length (num_colors,
\* plus 1 with alpha, 0 for the kinds without a palette) and entry size,
\* width and height little-endian, bits per pixel, and a descriptor of the
\* kind's alpha bits with bit 4 clear and bit 5 set exactly for the top-left
\* origin.
C12_HeaderTable ==
  HeaderWritten =>
    LET h == Slice(out, 0, HeaderSize)
        t == HeaderTable(enc.dtype)
        indexed == enc.dtype \in {GIMP_INDEXED_IMAGE, GIMP_INDEXEDA_IMAGE}
    IN  /\ At(h, 0) = 0
        /\ At(h, 1) = t[1]
        /\ At(h, 2) = t[2] + (IF enc.rle THEN 8 ELSE 0)
        /\ At(h, 3) = 0 /\ At(h, 4) = 0
        /\ At(h, 5) + 256 * At(h, 6) = (IF indexed THEN enc.num_colors + t[3] ELSE 0)
        /\ At(h, 7) = t[4]
        /\ At(h, 12) + 256 * At(h, 13) = enc.width
        /\ At(h, 14) + 256 * At(h, 15) = enc.height
        /\ At(h, 16) = t[5]
        /\ At(h, 17) % 16 = t[6]
        /\ (At(h, 17) \div 16) % 2 = 0
        /\ (At(h, 17) \div 32) % 2 = (IF enc.origin = ORIGIN_TOP_LEFT THEN 1 ELSE 0)
        /\ At(h, 17) \div 64 = 0

C12_Witness ==
  /\ pc = "palette"
  /\ enc.dtype = GIMP_INDEXEDA_IMAGE
  /\ enc.num_colors = 256
  /\ enc.rle
  /\ enc.origin = ORIGIN_TOP_LEFT
  /\ Slice(out, 0, 8) = <<0, 1, 9, 0, 0, 1, 1, 32>>
  /\ At(out, 17) = 32

\* C13: an encode whose file was opened does not end before the footer; the
\* file then is the 18-byte header, the palette (indexed kinds only), height
\* rows and the 26-byte footer (8 zero bytes and the magic), each piece
\* starting where the one before ended, the footer once and last.
C13_OutputOrder ==
  /\ enc.phase = "save" => pc # "crashed"
  /\ Saved =>
       LET n   == Len(enc.log)
           pal == IF enc.dtype \in {GIMP_INDEXED_IMAGE, GIMP_INDEXEDA_IMAGE}
                    THEN 1 ELSE 0
       IN  /\ n = 1 + pal + enc.height + 1
           /\ enc.log[1] = [what |-> "header", from |-> 0, to |-> HeaderSize]
           /\ pal = 1 => enc.log[2].what = "palette"
           /\ \A k \in (2 + pal)..(n - 1) : enc.log[k].what = "row"
           /\ enc.log[n] = [what |-> "footer", from |-> Len(out) - FooterSize,
                            to |-> Len(out)]
           /\ \A k \in 1..(n - 1) : enc.log[k].to = enc.log[k + 1].from
           /\ Slice(out, Len(out) - FooterSize, FooterSize)
                = <<0, 0, 0, 0, 0, 0, 0, 0>> \o magic

\* C14: of an indexed image with alpha, the palette written has num_colors
\* entries with alpha byte 255 and then an all-zero entry, and (without rle)
\* the byte written for a pixel is num_colors when its alpha is at most 127
\* and its own color index otherwise.
C14_IndexedAlpha ==
  Saved /\ enc.dtype = GIMP_INDEXEDA_IMAGE =>
    LET n    == enc.num_colors
        pal  == Slice(out, HeaderSize, 4 * (n + 1))
        base == HeaderSize + 4 * (n + 1)
    IN  /\ \A e \in 0..(n - 1) :
             Slice(pal, 4 * e, 4) = <<At(enc.cmap, 3 * e + 2), At(enc.cmap, 3 * e + 1),
                                      At(enc.cmap, 3 * e), 255>>
        /\ Slice(pal, 4 * n, 4) = <<0, 0, 0, 0>>
        /\ ~enc.rle =>
             \A r \in 0..(enc.height - 1), x \in 0..(enc.width - 1) :
               LET src == enc.pixels[SaveSourceRow(r, enc.height, enc.origin) + 1]
               IN  At(out, base + r * enc.width + x) =
                     IF At(src, 2 * x + 1) <= 127 THEN n ELSE At(src, 2 * x)

----------------------------------------------------------------------------
(* Two loads in one process.  tga_load (lines 315-343) calls load_image    *)
(* for each run of the load procedure; the static locals of rle_read keep  *)
(* their values from one call of load_image to the next.  Here enc is      *)
(* [session, rows]: which load is running and the rows of the file it is   *)
(* given.                                                                  *)

\* a top-down RLE gray file of the width and height with the packet stream
GrayStream(width, height, bpp, alpha, stream) ==
  File(HeaderBytes(H(11, 0, 0, 0, 0, width, height, bpp, 32 + alpha)) \o stream)

\* files of the first load: well-formed ones, ones whose last packet
\* declares more pixels than the image has left, and ones that end in the
\* middle of a packet
FirstFiles ==
  {MkFile(H(code, 0, 0, 0, 0, w, h, 8, 32), cut, "none", "any") :
     code \in {3, 11}, w \in 1..MaxWidth, h \in 1..2, cut \in 0..1}
    \cup {GrayStream(2, 1, 8, 0, <<130, 9>>),
          GrayStream(1, 1, 8, 0, <<1, 5, 6>>),
          GrayStream(2, 1, 8, 0, <<1, 5>>),
          GrayStream(2, 1, 16, 8, <<129, 7>>),
          GrayStream(1, 2, 8, 0, <<255, 9>>)}

\* files of the second load, with the rows they hold: top-down gray files
SecondFiles ==
  {[file |-> MkFile(H(code, 0, 0, 0, 0, w, h, 8, 32), 0, "none", "any"),
    rows |-> [r \in 1..h |-> FileLine(H(code, 0, 0, 0, 0, w, h, 8, 32), "any", r - 1)]] :
     code \in {3, 11}, w \in 1..MaxWidth, h \in 1..2}

InitSessions ==
  /\ pc = "open"
  /\ fp \in FirstFiles
  /\ enc = [session |-> 1, rows |-> <<>>]
  /\ out = <<>>
  /\ rle = RleZero
  /\ info = NoInfo
  /\ dec = DecInit

\* lines 315-343, 425-448: load_image has returned (an image or NULL) and
\* is called again, on another file
LoadAgain ==
  /\ pc \in {"done", "failed"}
  /\ enc.session = 1
  /\ \E f \in SecondFiles :
       /\ fp' = f.file
       /\ enc' = [session |-> 2, rows |-> f.rows]
  /\ info' = NoInfo
  /\ dec' = DecInit
  /\ pc' = "open"
  /\ UNCHANGED <<out, rle>>

NextSessions == NextLoad \/ LoadAgain

SpecSessions == InitSessions /\ [][NextSessions]_vars

\* C15: every load starts with both counters of rle_read at zero, and the
\* image of the second load holds the rows of its file whatever the first
\* load was given.
C15_SessionScoped ==
  /\ pc = "open" => rle.repeat = 0 /\ rle.direct = 0
  /\ pc = "done" /\ enc.session = 2 => dec.pixels = enc.rows

----------------------------------------------------------------------------
(* upsample on a line of two 15/16-bit pixels, as read_line calls it       *)
(* (line 955).  Here enc is [buf, width, bytes, alpha]: the line buffer    *)
(* and the arguments; dec.buf is the row written.                          *)

\* the two bytes of the pixel with bit 15 a and the 5-bit channels r, g, b
Pixel16(a, r, g, b) ==
  LE16(a * 32768 + r * 1024 + g * 32 + b)

\* the 5-bit channel c (0: bits 10-14, 1: bits 5-9, 2: bits 0-4) of the
\* 16-bit word at offset off of buf
Channel5(buf, off, c) ==
  LET word == At(buf, off) + 256 * At(buf, off + 1)
  IN  CASE c = 0 -> (word \div 1024) % 32
        [] c = 1 -> (word \div 32) % 32
        [] c = 2 -> word % 32

\* lines of two pixels: one channel takes the values v1 and v2, the other
\* two are both low or both high, and bit 15 is set in one pixel only
UpsampleLines ==
  {[buf |-> (CASE c = 0 -> Pixel16(t, v1, o, o) \o Pixel16(1 - t, v2, o, o)
               [] c = 1 -> Pixel16(t, o, v1, o) \o Pixel16(1 - t, o, v2, o)
               [] c = 2 -> Pixel16(t, o, o, v1) \o Pixel16(1 - t, o, o, v2)),
    width |-> 2, bytes |-> 2, alpha |-> a] :
     v1 \in 0..31, v2 \in 0..31, c \in 0..2, o \in {0, 31}, t \in {0, 1},
     a \in {0, 1, 8}}

InitUpsample ==
  /\ pc = "line16"
  /\ enc \in UpsampleLines
  /\ out = <<>>
  /\ fp = File(<<>>)
  /\ rle = RleZero
  /\ info = NoInfo
  /\ dec = NoDec

\* read_line line 955: upsample (row, buf, width, bytes, alphaBits)
Upsample ==
  /\ pc = "line16"
  /\ \E junk \in Fresh :
       dec' = [buf |-> upsample(enc.buf, enc.width, enc.bytes, enc.alpha, junk),
               ret |-> 0]
  /\ pc' = "upsampled"
  /\ UNCHANGED <<enc, out, fp, rle, info>>

NextUpsample == Upsample

SpecUpsample == InitUpsample /\ [][NextUpsample]_vars

\* C16: upsample writes 3 bytes for a pixel, 4 when alpha is asked for; the
\* bytes are, in this order, the channels of bits 10-14, 5-9 and 0-4, each
\* 5-bit value v as 8 * v + v \div 4, which is in 0..255 (0 for 0, 255 for
\* 31) and does not decrease with v; the fourth byte is 255 when bit 15 is
\* set and 0 when it is clear.
C16_Upsample ==
  pc = "upsampled" =>
    LET n == IF enc.alpha # 0 THEN 4 ELSE 3
        v(x, c) == Channel5(enc.buf, 2 * x, c)
        o(x, c) == At(dec.buf, n * x + c)
    IN  /\ Len(dec.buf) = n * enc.width
        /\ \A x \in 0..(enc.width - 1), c \in 0..2 :
             /\ o(x, c) = 8 * v(x, c) + (v(x, c) \div 4)
             /\ o(x, c) \in 0..255
             /\ v(x, c) = 0 => o(x, c) = 0
             /\ v(x, c) = 31 => o(x, c) = 255
        /\ \A c \in 0..2 : v(0, c) <= v(1, c) => o(0, c) <= o(1, c)
        /\ enc.alpha # 0 =>
             \A x \in 0..(enc.width - 1) :
               At(dec.buf, n * x + 3) = IF At(enc.buf, 2 * x + 1) >= 128 THEN 255 ELSE 0

C16_Witness ==
  /\ pc = "upsampled"
  /\ enc.alpha # 0
  /\ enc.buf = Pixel16(0, 31, 0, 0) \o Pixel16(1, 30, 0, 0)
  /\ dec.buf = <<255, 0, 0, 0, 247, 0, 0, 255>>

----------------------------------------------------------------------------
(* More properties of the decoder *)

\* the color map type check was made
PastColorMapType == SubformatAccepted /\ pc # "cmaptype"

\* C18: a header that passed the sub-format checks is rejected for its color
\* map type exactly when the kind is Mapped and the type is not 1, or the
\* kind is Truecolor or Grayscale and the type is not 0; then there is no
\* image and nothing was read after the header.  A header whose sub-format
\* is not in the table is reported as an unhandled sub-format whatever its
\* color map type.
C18_ColorMapType ==
  /\ PastColorMapType =>
       LET bad == \/ info.imageType = TGA_TYPE_MAPPED /\ At(dec.header, 1) # 1
                  \/ /\ info.imageType \in {TGA_TYPE_COLOR, TGA_TYPE_GRAY}
                     /\ At(dec.header, 1) # 0
       IN  /\ (pc = "failed" /\ dec.error = "Invalid color map type") <=> bad
           /\ bad => /\ ~dec.image
                     /\ dec.dtype = ""
                     /\ dec.tga_cmap.null
                     /\ dec.nread = 0
                     /\ fp.pos = HeaderSize
  /\ PastSubformat /\ KnownType(info)
       /\ ~InTable(info.imageType, info.bpp, info.alphaBits) =>
         pc = "failed" /\ dec.error = "Unhandled sub-format"

C18_Witness ==
  /\ pc = "failed"
  /\ dec.error = "Invalid color map type"
  /\ info.imageType = TGA_TYPE_GRAY
  /\ info.bpp = 8
  /\ info.colorMapType = 1
  /\ ~dec.image

\* the file ends with a footer that has the magic and extension offset 0
FooterWithoutExtension(f) ==
  /\ Len(f.data) >= FooterSize
  /\ f.good = Len(f.data)
  /\ SubSeq(f.data, Len(f.data) - 17, Len(f.data)) = magic
  /\ SubSeq(f.data, Len(f.data) - 25, Len(f.data) - 22) = <<0, 0, 0, 0>>

\* C19: the header load_image parses is the first 18 bytes of the file, read
\* at offset 0, whatever the footer probe did before; and when the footer has
\* the magic and extension offset 0, the probe stops after the footer: no
\* extension area is sought or read.
C19_HeaderAtStart ==
  /\ dec.header # <<>> =>
       /\ dec.headerPos = 0
       /\ dec.header = SubSeq(fp.data, 1, HeaderSize)
  /\ pc = "quirks" => fp.pos = HeaderSize
  /\ pc # "open" /\ FooterWithoutExtension(fp) =>
       /\ ~dec.extensionRead
       /\ pc = "header" => dec.footerRead /\ fp.pos = Len(fp.data)

C19_Witness ==
  /\ pc = "quirks"
  /\ dec.footerRead
  /\ dec.extensionRead
  /\ dec.headerPos = 0
  /\ fp.pos = HeaderSize
  /\ Len(fp.data) > HeaderSize + ExtensionSize

----------------------------------------------------------------------------
(* ReadImage on an RLE stream, lines 1135-1139 and 939: one rle_read call  *)
(* of width pixels per row, the static counters carried from call to call. *)
(* enc = [width, height, bytes, packets] describes the stream, a packet is *)
(* [head, records]; out is the stream, dec.rows the line buffers read.     *)

MaxPackets == 3
MaxCount == 3
LongCount == 128

RowBytes == {1, 2, 4}

\* record j of packet i
Record(i, j, bytes) == [k \in 1..bytes |-> (i * 40 + j * 3 + k) % 256]

\* a packet of kind and count c at place i of the stream
MakePacket(i, kind, c, bytes) ==
  IF kind = "repeat"
    THEN [head |-> 127 + c, records |-> <<Record(i, 0, bytes)>>]
    ELSE [head |-> c - 1, records |-> [j \in 1..c |-> Record(i, j, bytes)]]

PacketShapes ==
  UNION {[1..n -> {"repeat", "raw"} \X (1..MaxCount)] : n \in 1..MaxPackets}

\* streams with a packet of the longest count
LongShapes ==
  {<<<<k, LongCount>>>> : k \in {"repeat", "raw"}}
    \cup {<<<<k, 2>>, <<l, LongCount>>, <<k, 2>>>> : k, l \in {"repeat", "raw"}}

RECURSIVE FlattenRange(_, _, _)
\* ss[lo] \o ... \o ss[hi], the range halved
FlattenRange(ss, lo, hi) ==
  IF lo > hi
    THEN <<>>
    ELSE IF lo = hi
      THEN ss[lo]
      ELSE LET mid == (lo + hi) \div 2
           IN  FlattenRange(ss, lo, mid) \o FlattenRange(ss, mid + 1, hi)

FlattenSeq(ss) == FlattenRange(ss, 1, Len(ss))

\* the bytes of the stream
StreamBytes(ps) == FlattenSeq([i \in 1..Len(ps) |-> <<ps[i].head>> \o FlattenSeq(ps[i].records)])

\* the pixels a packet stands for
PixelCount(p) == IF p.head >= 128 THEN p.head - 127 ELSE p.head + 1

RECURSIVE PixelsBefore(_, _)
\* the pixels of the packets before packet i
PixelsBefore(ps, i) ==
  IF i <= 1 THEN 0 ELSE PixelsBefore(ps, i - 1) + PixelCount(ps[i - 1])

TotalPixels(ps) == PixelsBefore(ps, Len(ps) + 1)

\* the stream expanded in one pass
ExpandPacket(p) ==
  IF p.head >= 128
    THEN FlattenSeq([j \in 1..(p.head - 127) |-> p.records[1]])
    ELSE FlattenSeq([j \in 1..(p.head + 1) |-> p.records[j]])

Expand(ps) == FlattenSeq([i \in 1..Len(ps) |-> ExpandPacket(ps[i])])

InitRows ==
  /\ pc = "rows"
  /\ \E sh \in PacketShapes \cup LongShapes, bytes \in RowBytes :
       LET ps == [i \in 1..Len(sh) |-> MakePacket(i, sh[i][1], sh[i][2], bytes)]
       IN  \E w \in 1..TotalPixels(ps) :
             /\ TotalPixels(ps) % w = 0
             /\ enc = [width |-> w, height |-> TotalPixels(ps) \div w,
                       bytes |-> bytes, packets |-> ps]
             /\ out = StreamBytes(ps)
             /\ fp = File(StreamBytes(ps))
  /\ rle = RleZero
  /\ info = NoInfo
  /\ dec = [rows |-> <<>>, ret |-> 0]

\* lines 1135-1139, 939: read_line reads the next row with rle_read into the
\* line buffer of line 1125 (the result of rle_read is not looked at)
ReadRleLine ==
  /\ pc = "rows"
  /\ \E junk \in Fresh :
       LET buf0 == IF dec.rows = <<>>
                     THEN [i \in 1..(enc.width * enc.bytes) |-> junk]
                     ELSE dec.rows[Len(dec.rows)]
           r    == rle_read(rle, fp, buf0, enc.width, enc.bytes)
       IN  /\ fp' = r.f
           /\ rle' = [repeat |-> r.repeat, direct |-> r.direct, sample |-> r.sample]
           /\ dec' = [rows |-> Append(dec.rows, r.buf),
                      ret  |-> IF r.ret = EOF THEN EOF ELSE dec.ret]
  /\ pc' = IF Len(dec.rows) + 1 = enc.height THEN "rowsread" ELSE "rows"
  /\ UNCHANGED <<enc, out, info>>

NextRows == ReadRleLine

SpecRows == InitRows /\ [][NextRows]_vars

\* the pixels read so far
PixelsRead == Len(dec.rows) * enc.width

\* the bytes of the stream behind the first n pixels: the control byte and
\* the records of every packet begun, a raw packet up to pixel n only
BytesBehind(ps, n, bytes) ==
  LET Part(i) ==
        LET before == PixelsBefore(ps, i)
        IN  IF n <= before
              THEN 0
              ELSE IF ps[i].head >= 128
                THEN 1 + bytes
                ELSE 1 + bytes * Min(ps[i].head + 1, n - before)
      Sum[i \in 0..Len(ps)] == IF i = 0 THEN 0 ELSE Sum[i - 1] + Part(i)
  IN  Sum[Len(ps)]

\* the packet that holds pixel n (counted from 1), 0 when n = 0
PacketOf(ps, n) ==
  IF n = 0
    THEN 0
    ELSE CHOOSE i \in 1..Len(ps) :
           PixelsBefore(ps, i) < n /\ n <= PixelsBefore(ps, i + 1)

\* the pixels of the packet of pixel n that follow pixel n
LeftOver(ps, n) == IF n = 0 THEN 0 ELSE PixelsBefore(ps, PacketOf(ps, n) + 1) - n

\* C20: RLE decoding is continuous across rows.  For a well-formed stream of
\* width*height pixels read by height successive rle_read calls, counters
\* zero before the first, the rows read so far are the leading pixels of the
\* one-pass expansion and the whole expansion at the end, also when a packet
\* straddles a row boundary; the bytes consumed are one control byte per
\* packet begun plus its records (a control byte c >= 128 followed by one
\* record standing for c-127 pixels, c < 128 by c+1 literal records), the
\* counters hold what is left of the packet the row ended in, so the next
\* control byte is read only when both are zero.
C20_ContinuousRows ==
  pc \in {"rows", "rowsread"} =>
    /\ dec.ret = 0
    /\ FlattenSeq(dec.rows) = SubSeq(Expand(enc.packets), 1, PixelsRead * enc.bytes)
    /\ fp.pos = BytesBehind(enc.packets, PixelsRead, enc.bytes)
    /\ LET left == LeftOver(enc.packets, PixelsRead)
           i    == PacketOf(enc.packets, PixelsRead)
       IN  IF left = 0
             THEN rle.repeat = 0 /\ rle.direct = 0
             ELSE IF enc.packets[i].head >= 128
               THEN rle.repeat = left /\ rle.direct = 0
               ELSE rle.repeat = 0 /\ rle.direct = left
    /\ pc = "rowsread" =>
         /\ FlattenSeq(dec.rows) = Expand(enc.packets)
         /\ fp.pos = Len(out)

\* packet i of the stream lies on both sides of a row boundary
Straddles(i) ==
  \E r \in 1..(enc.height - 1) :
    /\ PixelsBefore(enc.packets, i) < r * enc.width
    /\ r * enc.width < PixelsBefore(enc.packets, i + 1)

C20_Witness ==
  /\ pc = "rowsread"
  /\ enc.height > 1
  /\ \E i \in 1..Len(enc.packets) : Straddles(i) /\ enc.packets[i].head >= 128
  /\ \E i \in 1..Len(enc.packets) : Straddles(i) /\ enc.packets[i].head < 128
  /\ FlattenSeq(dec.rows) = Expand(enc.packets)

----------------------------------------------------------------------------
(* read_line on one line buffer, lines 946-978: the flip of lines 946-949  *)
(* and then the conversion.  enc.buf is the line as read from the file,    *)
(* info the fields read_line looks at, dec.buf the line buffer and dec.row *)
(* the converted row.                                                      *)

MaxFlipWidth == 4

FlipSeeds == {0, 100, 250}

\* imageType, bpp and alphaBits of the lines: records of 1, 2, 3 and 4 bytes
FlipFormats ==
  {<<TGA_TYPE_GRAY, 8, 0>>, <<TGA_TYPE_GRAY, 16, 8>>, <<TGA_TYPE_MAPPED, 8, 0>>,
   <<TGA_TYPE_COLOR, 16, 0>>, <<TGA_TYPE_COLOR, 16, 1>>,
   <<TGA_TYPE_COLOR, 24, 0>>, <<TGA_TYPE_COLOR, 32, 8>>}

FlipInfo(fmt, width, flip) ==
  [imageType |-> fmt[1], imageCompression |-> TGA_COMP_NONE,
   bpp |-> fmt[2], bytes |-> (fmt[2] + 7) \div 8, alphaBits |-> fmt[3],
   width |-> width, flipHoriz |-> flip, colorMapIndex |-> 0]

\* gimp_drawable_get_bpp of the layer of a line without a converted table
FlipRowBpp(i) ==
  CASE i.imageType = TGA_TYPE_COLOR -> IF i.alphaBits # 0 THEN 4 ELSE 3
    [] i.imageType = TGA_TYPE_GRAY  -> IF i.alphaBits # 0 THEN 2 ELSE 1
    [] OTHER -> 1

InitFlip ==
  /\ pc = "line"
  /\ \E fmt \in FlipFormats, width \in 1..MaxFlipWidth, flip \in {0, 1},
        seed \in FlipSeeds :
       /\ info = FlipInfo(fmt, width, flip)
       /\ enc = [buf |-> [k \in 1..(width * ((fmt[2] + 7) \div 8)) |->
                            (seed + 7 * k) % 256]]
  /\ out = <<>>
  /\ fp = File(<<>>)
  /\ rle = RleZero
  /\ dec = [buf |-> enc.buf, row |-> <<>>, flips |-> 0]

\* lines 946-949: if (info->flipHoriz) flip_line (buf, info)
FlipLine ==
  /\ pc = "line"
  /\ dec' = [dec EXCEPT !.buf = FlipIfAsked(dec.buf, info), !.flips = 1]
  /\ pc' = "flipped"
  /\ UNCHANGED <<enc, out, fp, rle, info>>

\* lines 946-949 once more on the flipped line
FlipBack ==
  /\ pc = "flipped"
  /\ dec' = [dec EXCEPT !.buf = FlipIfAsked(dec.buf, info), !.flips = 2]
  /\ pc' = "restored"
  /\ UNCHANGED <<enc, out, fp, rle, info>>

\* lines 951-978: the line is converted into row
ConvertFlipped ==
  /\ pc = "flipped"
  /\ \E junk \in Fresh :
       dec' = [dec EXCEPT !.row = ConvertLine(dec.buf, info, FlipRowBpp(info),
                                              NULL, junk)]
  /\ pc' = "converted"
  /\ UNCHANGED <<enc, out, fp, rle, info>>

NextFlip == FlipLine \/ FlipBack \/ ConvertFlipped

SpecFlip == InitFlip /\ [][NextFlip]_vars

\* record x of a line of records of bytes bytes
RecordAt(buf, x, bytes) == [k \in 1..bytes |-> buf[x * bytes + k]]

\* the records of buf in reverse order
ReversedRecords(buf, width, bytes) ==
  \A x \in 0..(width - 1) : \A k \in 1..bytes :
    dec.buf[x * bytes + k] = buf[(width - 1 - x) * bytes + k]

\* C21: when descriptor bit 4 is set, read_line reverses the order of the
\* pixel records of the line (odd or even width, records of 1 to 4 bytes)
\* and keeps the order of the bytes inside each record; this happens on the
\* line as read, before the conversion, whose row is the conversion of the
\* reversed line; flipping twice restores the line; when bit 4 is clear the
\* line is unchanged.
C21_HorizontalFlip ==
  /\ pc \in {"flipped", "converted"} =>
       /\ Len(dec.buf) = Len(enc.buf)
       /\ IF info.flipHoriz # 0
            THEN ReversedRecords(enc.buf, info.width, info.bytes)
            ELSE dec.buf = enc.buf
  /\ pc = "flipped" => dec.row = <<>>
  /\ pc = "restored" => dec.buf = enc.buf
  /\ pc = "converted" =>
       LET n == FlipRowBpp(info)
       IN  /\ Len(dec.row) = info.width * n
           /\ \A x \in 0..(info.width - 1) :
                LET from == IF info.flipHoriz # 0 THEN info.width - 1 - x ELSE x
                IN  RecordAt(dec.row, x, n) =
                      ConvertLine(RecordAt(enc.buf, from, info.bytes),
                                  [info EXCEPT !.width = 1], n, NULL, 0)

C21_Witness ==
  /\ pc = "converted"
  /\ info.flipHoriz = 1
  /\ info.width = 3
  /\ info.bytes = 4
  /\ dec.buf # enc.buf
  /\ RecordAt(dec.buf, 0, 4) = RecordAt(enc.buf, 2, 4)

----------------------------------------------------------------------------
(* The width of the entries of the converted color map *)

\* a colour-mapped image promoted to direct colour had a line converted
PromotedLineRead ==
  /\ PastFormat
  /\ info.imageType = TGA_TYPE_MAPPED
  /\ ~dec.convert_cmap.null
  /\ info.colorMapLength > 0
  /\ dec.nread > 0

\* lines 1010, 1017, 1024: the entry width convert_cmap was allocated for
AllocatedWidth == Len(dec.convert_cmap.mem) \div info.colorMapLength

\* lines 1063-1071: the entry width bgr2rgb or upsample filled it with
FilledWidth ==
  Len(ConvertColormap(info, dec.tga_cmap.mem, dec.cmap_bytes, TRUE, 0))
    \div info.colorMapLength

\* lines 962-966, 892-909: the bytes apply_colormap advances in the table
\* for each index and copies for each pixel
LookupWidth == dec.conv.wrote \div info.width

\* C22: for a colour-mapped image promoted to direct colour, the converted
\* color map is filled with entries of one width w, 3 or 4 bytes, which is
\* also the width it was allocated for, the stride of the lookups of
\* apply_colormap and the number of bytes copied for each pixel.
C22_EntryWidth ==
  PromotedLineRead =>
    \E w \in {3, 4} :
      /\ AllocatedWidth = w
      /\ FilledWidth = w
      /\ LookupWidth = w

=============================================================================
